---- MODULE Spec2Model ----
(***************************************************************************)
(* Model of the tournament escrow program, programs/tournament/src/lib.rs. *)
(*                                                                         *)
(* One tournament account (TournamentState) and its escrow account are     *)
(* modelled.  Every instruction handler is an operator that takes the      *)
(* account state and the instruction's inputs and returns the error code  *)
(* (or "Ok"), the new account state and the transfers it issued out of     *)
(* the escrow, in order.  The account holds what the handler left in it.   *)
(* The transfers of an instruction that returns an error do not stand      *)
(* (Settled); the observation record `last` tells what was attempted.      *)
(* The escrow is an account the program does not own: anyone can send      *)
(* lamports to it (CreditEscrow).                                          *)
(*                                                                         *)
(* Identities (Pubkey) are small integers; 0 is Pubkey::default().         *)
(* Amounts are lamports.  The accumulators of the program are u128 and     *)
(* never wrap for u8 x u64 x u16 operands, so they are plain integers      *)
(* here.  The model checker's integers are 32 bits wide: amounts that do   *)
(* not fit them are written as sequences of bytes (see the section on      *)
(* tournaments with entry fees at the top of the u64 range).               *)
(***************************************************************************)
EXTENDS Integers, Sequences, FiniteSets, TLC

\* ------------------------------------------------------------------------
\* Bounds of the model
\* ------------------------------------------------------------------------
NumKeys == 3            \* identities 1..NumKeys can sign; 0 is the default key
MaxMatchId == 2         \* match identifiers 1..MaxMatchId
ScenarioPlayerCount == 4    \* identities of the four-player tournament
OutsideCredit == 1000   \* lamports somebody else sends to the escrow, once

\* ------------------------------------------------------------------------
\* Program constants
\* ------------------------------------------------------------------------
BasisPoints == 10000
MaxPlayersLimit == 100
MinTournamentPrize == 5000
MaxOperatorFee == 1500
MaxPayoutPositions == 20
MaxMatchPayoutPositions == 8
U8Max == 255
U64Bytes == 8               \* width of a lamport word (u64)
PubkeyBytes == 32           \* width of an encoded Pubkey

Radix == 2 ^ 8              \* a byte
U16Modulus == 2 ^ 16

DefaultKey == 0
PROGRAM_AUTHORITY == 1
Keys == 0 .. NumKeys
Signers == 1 .. NumKeys
MatchIds == 1 .. MaxMatchId

\* ------------------------------------------------------------------------
\* Helpers
\* ------------------------------------------------------------------------
RECURSIVE SeqSum(_)
SeqSum(s) == IF s = <<>> THEN 0 ELSE Head(s) + SeqSum(Tail(s))

Contains(s, x) == \E i \in DOMAIN s : s[i] = x

NoDuplicates(s) == \A i, j \in DOMAIN s : s[i] = s[j] => i = j

Range(s) == {s[i] : i \in DOMAIN s}

\* The value of the lowest n bytes of x.
RECURSIVE LowBytes(_, _)
LowBytes(x, n) ==
    IF n = 0 \/ x = 0 THEN 0
    ELSE (x % Radix) + Radix * LowBytes(x \div Radix, n - 1)

\* `x as u64`: the lowest 64 bits of x.
AsU64(x) == LowBytes(x, U64Bytes)

\* x does not fit a lamport word.
ExceedsU64(x) == AsU64(x) # x

AsU16(x) == x % U16Modulus

Individual(p) == [kind |-> "Individual", players |-> <<p>>, positions_consumed |-> 1]

Group(ps, k) == [kind |-> "Group", players |-> ps, positions_consumed |-> k]

\* ------------------------------------------------------------------------
\* State
\* ------------------------------------------------------------------------
VARIABLES
    initialized,        \* the tournament account exists (Anchor `init` done)
    tournament_state,   \* the TournamentState account
    escrow_lamports,    \* balance of the escrow PDA
    paid,               \* ghost: totals committed out of the vault, by kind,
                        \* and the lamports credited to it from outside
    last                \* ghost: the last instruction, its result and transfers

vars == <<initialized, tournament_state, escrow_lamports, paid, last>>

EmptyState ==
    [buy_in_amount |-> 0, max_players |-> 0, current_players |-> 0,
     match_size |-> 0, phase |-> "Registration", participants |-> <<>>,
     paid_match_ids |-> <<>>, tournament_prize_percentage |-> 0,
     match_prize_percentage |-> 0, operator_fee_percentage |-> 0,
     tournament_payouts |-> <<>>, match_payout_percentages |-> <<>>,
     operator_fee_withdrawn |-> FALSE, authority |-> DefaultKey,
     refunded_participants |-> <<>>]

\* Result of an instruction: error code, account state to store, transfers
\* issued out of the escrow (in order) and lamports deposited into it.
\* position_counter and total_distributed are the locals of the two payout
\* handlers when they return (0 for the other handlers).
Ok(s, transfers) ==
    [err |-> "Ok", state |-> s, transfers |-> transfers, deposit |-> 0,
     position_counter |-> 0, total_distributed |-> 0]

Err(s, e, transfers) ==
    [err |-> e, state |-> s, transfers |-> transfers, deposit |-> 0,
     position_counter |-> 0, total_distributed |-> 0]

WithLocals(r, acc) ==
    [r EXCEPT !.position_counter = acc.position_counter,
              !.total_distributed = acc.total_distributed]

\* ------------------------------------------------------------------------
\* Pure functions
\* ------------------------------------------------------------------------
is_participant(s, player) == Contains(s.participants, player)

\* Mutation: the total counts one player too few.
calculate_total_buy_ins_off_by_one(current_players, buy_in_amount) ==
    [err |-> "Ok", value |-> (current_players - 1) * buy_in_amount]

calculate_total_buy_ins(current_players, buy_in_amount) ==
    LET total == current_players * buy_in_amount
    IN  IF total \div buy_in_amount = current_players
        THEN [err |-> "Ok", value |-> total]
        ELSE [err |-> "CalculationOverflow", value |-> 0]

\* Mutation: the division rounds up.
calculate_percentage_amount_rounds_up(total, percentage) ==
    LET amount == (total * percentage + BasisPoints - 1) \div BasisPoints
    IN  IF amount <= total
        THEN [err |-> "Ok", value |-> amount]
        ELSE [err |-> "CalculationOverflow", value |-> 0]

calculate_percentage_amount(total, percentage) ==
    LET amount == (total * percentage) \div BasisPoints
    IN  IF amount <= total
        THEN [err |-> "Ok", value |-> amount]
        ELSE [err |-> "CalculationOverflow", value |-> 0]

\* u16 addition: a build with overflow checks panics, a build without wraps.
AddU16(a, b, overflow_checks) ==
    IF a + b >= U16Modulus
    THEN IF overflow_checks THEN [err |-> "Panic", value |-> 0]
         ELSE [err |-> "Ok", value |-> AsU16(a + b)]
    ELSE [err |-> "Ok", value |-> a + b]

\* ------------------------------------------------------------------------
\* initialize_tournament
\* ------------------------------------------------------------------------
initialize_tournament(s, payer, buy_in_amount, max_players, match_size, tournament_prize_percentage, match_prize_percentage, operator_fee_percentage, overflow_checks) ==
    LET s1 == AddU16(tournament_prize_percentage, match_prize_percentage,
                     overflow_checks)
        s2 == AddU16(s1.value, operator_fee_percentage, overflow_checks)
    IN
    IF payer # PROGRAM_AUTHORITY THEN Err(s, "UnauthorizedAuthority", <<>>)
    ELSE IF ~(buy_in_amount > 0) THEN Err(s, "InvalidBuyInAmount", <<>>)
    ELSE IF ~(max_players >= 2 /\ max_players <= MaxPlayersLimit)
        THEN Err(s, "InvalidMaxPlayers", <<>>)
    ELSE IF ~(match_size >= 2 /\ match_size <= max_players)
        THEN Err(s, "InvalidMatchSize", <<>>)
    ELSE IF ~(tournament_prize_percentage > 0)
        THEN Err(s, "InvalidTournamentPrizePercentage", <<>>)
    ELSE IF ~(operator_fee_percentage > 0
              /\ operator_fee_percentage <= MaxOperatorFee)
        THEN Err(s, "InvalidOperatorFeePercentage", <<>>)
    ELSE IF s1.err # "Ok" THEN Err(s, s1.err, <<>>)
    ELSE IF s2.err # "Ok" THEN Err(s, s2.err, <<>>)
    ELSE IF ~(s2.value = BasisPoints) THEN Err(s, "InvalidPercentages", <<>>)
    ELSE IF ~(tournament_prize_percentage >= MinTournamentPrize)
        THEN Err(s, "TournamentPrizeTooLow", <<>>)
    ELSE IF ~(operator_fee_percentage <= MaxOperatorFee)
        THEN Err(s, "OperatorFeeTooHigh", <<>>)
    ELSE Ok([buy_in_amount |-> buy_in_amount,
             max_players |-> max_players,
             current_players |-> 0,
             match_size |-> match_size,
             phase |-> "Registration",
             participants |-> <<>>,
             paid_match_ids |-> <<>>,
             tournament_prize_percentage |-> tournament_prize_percentage,
             match_prize_percentage |-> match_prize_percentage,
             operator_fee_percentage |-> operator_fee_percentage,
             tournament_payouts |-> <<>>,
             match_payout_percentages |-> <<>>,
             operator_fee_withdrawn |-> FALSE,
             authority |-> payer,
             refunded_participants |-> <<>>], <<>>)

\* The `constraint = tournament_state.authority == authority.key()` of the
\* Accounts structs, evaluated before the handler runs.
AuthorityConstraint(s, authority) == s.authority = authority

\* ------------------------------------------------------------------------
\* buy_in
\* ------------------------------------------------------------------------
\* Mutation: the registration loop finds nobody.
already_registered_never(s, player) == FALSE

\* The loop `for participant in participants.iter()` that rejects a player
\* who is already registered.
already_registered(s, player) ==
    \E i \in DOMAIN s.participants : s.participants[i] = player

\* Mutation: the player is registered before the payment is made.
buy_in_registers_before_transfer(s, player, authority, funded, balance) ==
    LET registered == [s EXCEPT !.participants = Append(@, player),
                                !.current_players = @ + 1]
    IN
    IF ~AuthorityConstraint(s, authority)
        THEN Err(s, "UnauthorizedAuthority", <<>>)
    ELSE IF ~(s.phase = "Registration") THEN Err(s, "InvalidPhase", <<>>)
    ELSE IF ~(s.current_players < s.max_players)
        THEN Err(s, "TournamentFull", <<>>)
    ELSE IF ~(s.current_players < U8Max)
        THEN Err(s, "PlayerCountOverflow", <<>>)
    ELSE IF already_registered(s, player)
        THEN Err(s, "AlreadyRegistered", <<>>)
    ELSE IF ~funded \/ ExceedsU64(balance + s.buy_in_amount)
        THEN Err(registered, "TransferFailed", <<>>)
    ELSE [Ok(registered, <<>>) EXCEPT !.deposit = s.buy_in_amount]

\* Mutation: the authority account of buy_in is not constrained.
buy_in_without_authority(s, player, authority, funded, balance) ==
    IF ~(s.phase = "Registration") THEN Err(s, "InvalidPhase", <<>>)
    ELSE IF ~(s.current_players < s.max_players)
        THEN Err(s, "TournamentFull", <<>>)
    ELSE IF ~(s.current_players < U8Max)
        THEN Err(s, "PlayerCountOverflow", <<>>)
    ELSE IF already_registered(s, player)
        THEN Err(s, "AlreadyRegistered", <<>>)
    ELSE IF ~funded \/ ExceedsU64(balance + s.buy_in_amount)
        THEN Err(s, "TransferFailed", <<>>)
    ELSE [Ok([s EXCEPT !.participants = Append(@, player),
                       !.current_players = @ + 1], <<>>)
            EXCEPT !.deposit = s.buy_in_amount]

buy_in(s, player, authority, funded, balance) ==
    IF ~AuthorityConstraint(s, authority)
        THEN Err(s, "UnauthorizedAuthority", <<>>)
    ELSE IF ~(s.phase = "Registration") THEN Err(s, "InvalidPhase", <<>>)
    ELSE IF ~(s.current_players < s.max_players)
        THEN Err(s, "TournamentFull", <<>>)
    ELSE IF ~(s.current_players < U8Max)
        THEN Err(s, "PlayerCountOverflow", <<>>)
    ELSE IF already_registered(s, player)
        THEN Err(s, "AlreadyRegistered", <<>>)
    \* system_program::transfer(player -> escrow, buy_in_amount)?
    ELSE IF ~funded \/ ExceedsU64(balance + s.buy_in_amount)
        THEN Err(s, "TransferFailed", <<>>)
    ELSE [Ok([s EXCEPT !.participants = Append(@, player),
                       !.current_players = @ + 1], <<>>)
            EXCEPT !.deposit = s.buy_in_amount]

\* ------------------------------------------------------------------------
\* start_tournament
\* ------------------------------------------------------------------------
\* Mutation: start_tournament without its two tests of the number of
\* registered players.
start_tournament_without_players(s, authority, payout_percentages, match_payout_percentages) ==
    IF ~AuthorityConstraint(s, authority)
        THEN Err(s, "UnauthorizedAuthority", <<>>)
    ELSE IF ~(s.phase = "Registration") THEN Err(s, "InvalidPhase", <<>>)
    ELSE IF ~(payout_percentages # <<>>
              /\ Len(payout_percentages) <= MaxPayoutPositions)
        THEN Err(s, "InvalidPayoutCount", <<>>)
    ELSE IF ~(SeqSum(payout_percentages) = BasisPoints)
        THEN Err(s, "InvalidPercentages", <<>>)
    ELSE IF \E i \in DOMAIN payout_percentages :
                ~(payout_percentages[i] > 0)
                \/ ~(payout_percentages[i] <= BasisPoints)
        THEN Err(s, "InvalidPayoutPercentage", <<>>)
    ELSE IF ~(match_payout_percentages # <<>>
              /\ Len(match_payout_percentages) <= MaxMatchPayoutPositions)
        THEN Err(s, "InvalidMatchPayoutCount", <<>>)
    ELSE IF ~(SeqSum(match_payout_percentages) = BasisPoints)
        THEN Err(s, "InvalidMatchPayoutPercentages", <<>>)
    ELSE IF \E i \in DOMAIN match_payout_percentages :
                ~(match_payout_percentages[i] > 0)
                \/ ~(match_payout_percentages[i] <= BasisPoints)
        THEN Err(s, "InvalidMatchPayoutPercentage", <<>>)
    ELSE Ok([s EXCEPT !.tournament_payouts = payout_percentages,
                      !.match_payout_percentages = match_payout_percentages,
                      !.phase = "Playing"], <<>>)

\* Mutation: start_tournament without the comparison of the number of
\* payout positions with the number of registered players.
start_tournament_without_player_bound(s, authority, payout_percentages, match_payout_percentages) ==
    IF ~AuthorityConstraint(s, authority)
        THEN Err(s, "UnauthorizedAuthority", <<>>)
    ELSE IF ~(s.phase = "Registration") THEN Err(s, "InvalidPhase", <<>>)
    ELSE IF ~(s.current_players > 0) THEN Err(s, "NotEnoughPlayers", <<>>)
    ELSE IF ~(payout_percentages # <<>>
              /\ Len(payout_percentages) <= MaxPayoutPositions)
        THEN Err(s, "InvalidPayoutCount", <<>>)
    ELSE IF ~(SeqSum(payout_percentages) = BasisPoints)
        THEN Err(s, "InvalidPercentages", <<>>)
    ELSE IF \E i \in DOMAIN payout_percentages :
                ~(payout_percentages[i] > 0)
                \/ ~(payout_percentages[i] <= BasisPoints)
        THEN Err(s, "InvalidPayoutPercentage", <<>>)
    ELSE IF ~(match_payout_percentages # <<>>
              /\ Len(match_payout_percentages) <= MaxMatchPayoutPositions)
        THEN Err(s, "InvalidMatchPayoutCount", <<>>)
    ELSE IF ~(SeqSum(match_payout_percentages) = BasisPoints)
        THEN Err(s, "InvalidMatchPayoutPercentages", <<>>)
    ELSE IF \E i \in DOMAIN match_payout_percentages :
                ~(match_payout_percentages[i] > 0)
                \/ ~(match_payout_percentages[i] <= BasisPoints)
        THEN Err(s, "InvalidMatchPayoutPercentage", <<>>)
    ELSE Ok([s EXCEPT !.tournament_payouts = payout_percentages,
                      !.match_payout_percentages = match_payout_percentages,
                      !.phase = "Playing"], <<>>)

start_tournament(s, authority, payout_percentages, match_payout_percentages) ==
    LET total_percentage == SeqSum(payout_percentages)
        match_total_percentage == SeqSum(match_payout_percentages)
    IN
    IF ~AuthorityConstraint(s, authority)
        THEN Err(s, "UnauthorizedAuthority", <<>>)
    ELSE IF ~(s.phase = "Registration") THEN Err(s, "InvalidPhase", <<>>)
    ELSE IF ~(s.current_players > 0) THEN Err(s, "NotEnoughPlayers", <<>>)
    ELSE IF ~(payout_percentages # <<>>
              /\ Len(payout_percentages) <= MaxPayoutPositions)
        THEN Err(s, "InvalidPayoutCount", <<>>)
    ELSE IF ~(Len(payout_percentages) <= s.current_players)
        THEN Err(s, "TooManyPayoutPositions", <<>>)
    ELSE IF ~(total_percentage = BasisPoints)
        THEN Err(s, "InvalidPercentages", <<>>)
    ELSE IF \E i \in DOMAIN payout_percentages :
                ~(payout_percentages[i] > 0)
                \/ ~(payout_percentages[i] <= BasisPoints)
        THEN Err(s, "InvalidPayoutPercentage", <<>>)
    ELSE IF ~(match_payout_percentages # <<>>
              /\ Len(match_payout_percentages) <= MaxMatchPayoutPositions)
        THEN Err(s, "InvalidMatchPayoutCount", <<>>)
    ELSE IF ~(match_total_percentage = BasisPoints)
        THEN Err(s, "InvalidMatchPayoutPercentages", <<>>)
    ELSE IF \E i \in DOMAIN match_payout_percentages :
                ~(match_payout_percentages[i] > 0)
                \/ ~(match_payout_percentages[i] <= BasisPoints)
        THEN Err(s, "InvalidMatchPayoutPercentage", <<>>)
    ELSE Ok([s EXCEPT !.tournament_payouts = payout_percentages,
                      !.match_payout_percentages = match_payout_percentages,
                      !.phase = "Playing"], <<>>)

\* ------------------------------------------------------------------------
\* transfer_from_escrow and the winner loops
\* ------------------------------------------------------------------------
\* Accumulator of a handler that pays out of the escrow.
NewAcc(balance) ==
    [err |-> "Ok", position_counter |-> 0, total_distributed |-> 0,
     remaining_amount |-> 0, transfers |-> <<>>, balance |-> balance]

\* invoke_signed(system transfer escrow -> destination, amount)?: the system
\* program refuses a transfer larger than the escrow balance.
transfer_from_escrow(acc, destination, amount) ==
    IF amount > acc.balance
    THEN [acc EXCEPT !.err = "InsufficientFunds"]
    ELSE [acc EXCEPT !.balance = @ - amount,
                     !.transfers =
                         Append(@, [to |-> destination, amount |-> amount])]

\* The search of remaining_accounts for the winner's account, the transfer
\* to it, and the require!(found, MissingWinnerAccount) that follows.
PayWinnerAccount(acc, player, amount, remaining_accounts) ==
    IF player \in remaining_accounts
    THEN transfer_from_escrow(acc, player, AsU64(amount))
    ELSE [acc EXCEPT !.err = "MissingWinnerAccount"]

\* Mutation: a Group's percentages are summed from position 0 instead of
\* from the position counter.
CombinedPoolPercentage_from_zero(payouts, from, to) ==
    SeqSum([j \in 1 .. Len(payouts) |->
               IF j - 1 < to THEN payouts[j] ELSE 0])

\* Mutation: a Group is given the percentage of its first position only.
CombinedPoolPercentage_first_only(payouts, from, to) ==
    IF from < Len(payouts) THEN payouts[from + 1] ELSE 0

\* Sum of payouts[i] for the 0-based positions from <= i < to inside payouts.
CombinedPoolPercentage(payouts, from, to) ==
    SeqSum([j \in 1 .. Len(payouts) |->
               IF from <= j - 1 /\ j - 1 < to THEN payouts[j] ELSE 0])

\* Mutation: the last player of a Group gets the even share like the others
\* and the remainder of the division stays in the escrow.
RECURSIVE GroupLoop_even_shares(_, _, _, _, _)
GroupLoop_even_shares(acc, players, player_index, payout_per_player, remaining_accounts) ==
    IF acc.err # "Ok" \/ player_index > Len(players) THEN acc
    ELSE
      LET paid_acc == PayWinnerAccount(acc, players[player_index],
                                       payout_per_player, remaining_accounts)
      IN  IF ~(payout_per_player > 0)
              THEN [acc EXCEPT !.err = "NoMatchRewards"]
          ELSE IF paid_acc.err # "Ok" THEN paid_acc
          ELSE GroupLoop_even_shares(
                 [paid_acc EXCEPT
                     !.remaining_amount = @ - payout_per_player,
                     !.total_distributed = @ + payout_per_player],
                 players, player_index + 1, payout_per_player,
                 remaining_accounts)

RECURSIVE GroupLoop(_, _, _, _, _)
GroupLoop(acc, players, player_index, payout_per_player, remaining_accounts) ==
    IF acc.err # "Ok" \/ player_index > Len(players) THEN acc
    ELSE
      LET amount_to_transfer ==
              IF player_index = Len(players) THEN acc.remaining_amount
              ELSE payout_per_player
          paid_acc == PayWinnerAccount(acc, players[player_index],
                                       amount_to_transfer, remaining_accounts)
      IN  IF ~(amount_to_transfer > 0)
              THEN [acc EXCEPT !.err = "NoMatchRewards"]
          ELSE IF paid_acc.err # "Ok" THEN paid_acc
          ELSE GroupLoop(
                 [paid_acc EXCEPT
                     !.remaining_amount = @ - amount_to_transfer,
                     !.total_distributed = @ + amount_to_transfer],
                 players, player_index + 1, payout_per_player,
                 remaining_accounts)

\* One iteration of `for (winner_index, winner) in winners.iter().enumerate()`.
\* require_positive is the require!(amount > 0) that only
\* distribute_match_rewards makes for an Individual winner.
ProcessWinner(acc, winner, pool, payouts, remaining_accounts, require_positive) ==
    IF winner.kind = "Individual" THEN
        IF acc.position_counter < Len(payouts) THEN
            LET amount == calculate_percentage_amount(
                              pool, payouts[acc.position_counter + 1])
                paid_acc == PayWinnerAccount(acc, winner.players[1],
                                             amount.value, remaining_accounts)
            IN  IF amount.err # "Ok" THEN [acc EXCEPT !.err = amount.err]
                ELSE IF require_positive /\ ~(amount.value > 0)
                    THEN [acc EXCEPT !.err = "NoMatchRewards"]
                ELSE IF paid_acc.err # "Ok" THEN paid_acc
                ELSE [paid_acc EXCEPT
                         !.total_distributed = @ + amount.value,
                         !.position_counter = @ + 1]
        ELSE [acc EXCEPT !.position_counter = @ + 1]
    ELSE
        LET players == winner.players
            positions_consumed == winner.positions_consumed
            combined_pool_percentage ==
                CombinedPoolPercentage(payouts, acc.position_counter,
                    acc.position_counter + positions_consumed)
            combined_pool_amount ==
                calculate_percentage_amount(
                    pool, AsU16(combined_pool_percentage))
            payout_per_player == combined_pool_amount.value \div Len(players)
            looped == GroupLoop(
                [acc EXCEPT !.remaining_amount = combined_pool_amount.value],
                players, 1, payout_per_player, remaining_accounts)
        IN  IF ~(players # <<>>)
                THEN [acc EXCEPT !.err = "InvalidWinnerCount"]
            ELSE IF ~(positions_consumed > 0)
                THEN [acc EXCEPT !.err = "InvalidWinnerCount"]
            ELSE IF combined_pool_amount.err # "Ok"
                THEN [acc EXCEPT !.err = combined_pool_amount.err]
            ELSE IF ~(payout_per_player * Len(players)
                        <= combined_pool_amount.value)
                THEN [acc EXCEPT !.err = "CalculationOverflow"]
            ELSE IF looped.err # "Ok" THEN looped
            ELSE [looped EXCEPT !.position_counter = @ + positions_consumed]

\* Mutation: the winner loop ends at the first winner whose position is
\* beyond the payout sequence.
RECURSIVE WinnerLoop_until_last_position(_, _, _, _, _, _, _)
WinnerLoop_until_last_position(acc, winners, winner_index, pool, payouts, remaining_accounts, require_positive) ==
    IF acc.err # "Ok" \/ winner_index > Len(winners)
       \/ acc.position_counter >= Len(payouts) THEN acc
    ELSE WinnerLoop_until_last_position(
            ProcessWinner(acc, winners[winner_index], pool, payouts,
                          remaining_accounts, require_positive),
            winners, winner_index + 1, pool, payouts, remaining_accounts,
            require_positive)

RECURSIVE WinnerLoop(_, _, _, _, _, _, _)
WinnerLoop(acc, winners, winner_index, pool, payouts, remaining_accounts, require_positive) ==
    IF acc.err # "Ok" \/ winner_index > Len(winners) THEN acc
    ELSE WinnerLoop(
            ProcessWinner(acc, winners[winner_index], pool, payouts,
                          remaining_accounts, require_positive),
            winners, winner_index + 1, pool, payouts, remaining_accounts,
            require_positive)

\* The validation loop over the winner list that precedes the payouts.
\* reject_default is the Pubkey::default() test of distribute_match_rewards.
RECURSIVE ValidatePlayers(_, _, _, _)
ValidatePlayers(s, players, i, reject_default) ==
    IF i > Len(players) THEN "Ok"
    ELSE IF reject_default /\ ~(players[i] # DefaultKey) THEN "InvalidWinner"
    ELSE IF ~is_participant(s, players[i]) THEN "WinnerNotParticipant"
    ELSE ValidatePlayers(s, players, i + 1, reject_default)

RECURSIVE ValidateWinners(_, _, _, _)
ValidateWinners(s, winners, i, reject_default) ==
    IF i > Len(winners) THEN "Ok"
    ELSE LET e == ValidatePlayers(s, winners[i].players, 1, reject_default)
         IN  IF e # "Ok" THEN e
             ELSE ValidateWinners(s, winners, i + 1, reject_default)

\* ------------------------------------------------------------------------
\* finalize_tournament
\* ------------------------------------------------------------------------
finalize_tournament(s, authority, winners, remaining_accounts, balance) ==
    LET valid == ValidateWinners(s, winners, 1, FALSE)
        total_buy_ins ==
            calculate_total_buy_ins(s.current_players, s.buy_in_amount)
        tournament_pool ==
            calculate_percentage_amount(total_buy_ins.value,
                                        s.tournament_prize_percentage)
        acc == WinnerLoop(NewAcc(balance), winners, 1, tournament_pool.value,
                          s.tournament_payouts, remaining_accounts, FALSE)
    IN
    IF ~AuthorityConstraint(s, authority)
        THEN Err(s, "UnauthorizedAuthority", <<>>)
    ELSE IF ~(s.phase = "Playing") THEN Err(s, "InvalidPhase", <<>>)
    ELSE IF ~(winners # <<>>) THEN Err(s, "InvalidWinnerCount", <<>>)
    ELSE IF valid # "Ok" THEN Err(s, valid, <<>>)
    ELSE IF total_buy_ins.err # "Ok" THEN Err(s, total_buy_ins.err, <<>>)
    ELSE IF tournament_pool.err # "Ok" THEN Err(s, tournament_pool.err, <<>>)
    ELSE IF acc.err # "Ok" THEN WithLocals(Err(s, acc.err, acc.transfers), acc)
    ELSE IF ~(acc.total_distributed <= tournament_pool.value)
        THEN WithLocals(Err(s, "CalculationOverflow", acc.transfers), acc)
    ELSE WithLocals(Ok([s EXCEPT !.phase = "Finalized"], acc.transfers), acc)

\* ------------------------------------------------------------------------
\* distribute_match_rewards
\* ------------------------------------------------------------------------
\* paid_match_ids.contains(&match_id_hash)
match_already_paid(s, match_id_hash) == Contains(s.paid_match_ids, match_id_hash)

\* Borsh encoding of one Winner: the variant tag, then the key of an
\* Individual, or the key vector (u32 length, keys) and the u8
\* positions_consumed of a Group.
EncodedWinnerBytes(winner) ==
    IF winner.kind = "Individual" THEN 1 + PubkeyBytes
    ELSE 1 + 4 + PubkeyBytes * Len(winner.players) + 1

\* #[instruction(match_id_hash: u32, winners: Vec<Pubkey>)] on the accounts
\* of distribute_match_rewards: before the constraints are checked the
\* instruction data, which encodes (u32, Vec<Winner>), is decoded as
\* (u32, Vec<Pubkey>).  The vector length read is the number of winners and
\* that many keys are read from the bytes that follow; the decoding fails
\* (InstructionDidNotDeserialize) when the bytes run out, and bytes left
\* over are ignored.
InstructionArgsDecode(winners) ==
    PubkeyBytes * Len(winners)
        <= SeqSum([i \in 1 .. Len(winners) |-> EncodedWinnerBytes(winners[i])])

distribute_match_rewards(s, authority, match_id_hash, winners, remaining_accounts, balance) ==
    LET valid == ValidateWinners(s, winners, 1, TRUE)
        total_buy_ins ==
            calculate_total_buy_ins(s.current_players, s.buy_in_amount)
        total_match_pool ==
            calculate_percentage_amount(total_buy_ins.value,
                                        s.match_prize_percentage)
        num_matches ==
            (s.current_players + s.match_size - 1) \div s.match_size
        match_pool == total_match_pool.value \div num_matches
        acc == WinnerLoop(NewAcc(balance), winners, 1, match_pool,
                          s.match_payout_percentages, remaining_accounts, TRUE)
    IN
    IF ~InstructionArgsDecode(winners)
        THEN Err(s, "InstructionDidNotDeserialize", <<>>)
    ELSE IF ~AuthorityConstraint(s, authority)
        THEN Err(s, "UnauthorizedAuthority", <<>>)
    ELSE IF ~(s.phase = "Finalized")
        THEN Err(s, "TournamentNotFinalized", <<>>)
    ELSE IF match_already_paid(s, match_id_hash)
        THEN Err(s, "MatchAlreadyPaid", <<>>)
    ELSE IF ~(winners # <<>>) THEN Err(s, "InvalidWinnerCount", <<>>)
    ELSE IF valid # "Ok" THEN Err(s, valid, <<>>)
    ELSE IF total_buy_ins.err # "Ok" THEN Err(s, total_buy_ins.err, <<>>)
    ELSE IF total_match_pool.err # "Ok"
        THEN Err(s, total_match_pool.err, <<>>)
    ELSE IF ~(num_matches > 0) THEN Err(s, "InvalidMatchCount", <<>>)
    ELSE IF ~(match_pool > 0) THEN Err(s, "NoMatchRewards", <<>>)
    ELSE IF ~(match_pool * num_matches <= total_match_pool.value)
        THEN Err(s, "CalculationOverflow", <<>>)
    ELSE IF acc.err # "Ok" THEN WithLocals(Err(s, acc.err, acc.transfers), acc)
    ELSE IF ~(acc.total_distributed <= match_pool)
        THEN WithLocals(Err(s, "CalculationOverflow", acc.transfers), acc)
    ELSE WithLocals(
            Ok([s EXCEPT !.paid_match_ids = Append(@, match_id_hash)],
               acc.transfers), acc)

\* ------------------------------------------------------------------------
\* withdraw_operator_fee
\* ------------------------------------------------------------------------
\* Mutation: the latch is not consulted.
fee_already_withdrawn_never(s) == FALSE

\* The one-shot latch as the handler reads it.
fee_already_withdrawn(s) == s.operator_fee_withdrawn

withdraw_operator_fee(s, authority, fee_recipient, balance) ==
    LET total_buy_ins ==
            calculate_total_buy_ins(s.current_players, s.buy_in_amount)
        operator_fee ==
            calculate_percentage_amount(total_buy_ins.value,
                                        s.operator_fee_percentage)
        acc == transfer_from_escrow(NewAcc(balance), fee_recipient,
                                    AsU64(operator_fee.value))
    IN
    IF ~AuthorityConstraint(s, authority)
        THEN Err(s, "UnauthorizedAuthority", <<>>)
    ELSE IF ~(s.phase = "Finalized")
        THEN Err(s, "TournamentNotFinalized", <<>>)
    ELSE IF ~(~fee_already_withdrawn(s))
        THEN Err(s, "OperatorFeeAlreadyWithdrawn", <<>>)
    ELSE IF total_buy_ins.err # "Ok" THEN Err(s, total_buy_ins.err, <<>>)
    ELSE IF operator_fee.err # "Ok" THEN Err(s, operator_fee.err, <<>>)
    ELSE IF acc.err # "Ok" THEN Err(s, acc.err, acc.transfers)
    ELSE Ok([s EXCEPT !.operator_fee_withdrawn = TRUE], acc.transfers)

\* ------------------------------------------------------------------------
\* cancel_tournament
\* ------------------------------------------------------------------------
\* Mutation: cancel_tournament without its phase test.
cancel_tournament_any_phase(s, authority) ==
    IF ~AuthorityConstraint(s, authority)
        THEN Err(s, "UnauthorizedAuthority", <<>>)
    ELSE Ok([s EXCEPT !.phase = "Cancelled"], <<>>)

\* Mutation: cancelling also empties the list of participants.
cancel_tournament_clears_participants(s, authority) ==
    IF ~AuthorityConstraint(s, authority)
        THEN Err(s, "UnauthorizedAuthority", <<>>)
    ELSE IF ~(s.phase = "Registration")
        THEN Err(s, "TournamentAlreadyStarted", <<>>)
    ELSE Ok([s EXCEPT !.phase = "Cancelled", !.participants = <<>>,
                      !.current_players = 0], <<>>)

cancel_tournament(s, authority) ==
    IF ~AuthorityConstraint(s, authority)
        THEN Err(s, "UnauthorizedAuthority", <<>>)
    ELSE IF ~(s.phase = "Registration")
        THEN Err(s, "TournamentAlreadyStarted", <<>>)
    ELSE Ok([s EXCEPT !.phase = "Cancelled"], <<>>)

\* ------------------------------------------------------------------------
\* refund_participant
\* ------------------------------------------------------------------------
\* Mutation: the ledger of refunds is not consulted.
already_refunded_never(s, participant) == FALSE

\* Mutation: the ledger is tested for being non-empty instead of for holding
\* the participant.
already_refunded_any(s, participant) == s.refunded_participants # <<>>

\* refunded_participants.contains(&participant)
already_refunded(s, participant) ==
    Contains(s.refunded_participants, participant)

\* Mutation: a refund that is not entered in refunded_participants.
refund_participant_without_ledger(s, authority, participant, balance) ==
    LET acc == transfer_from_escrow(NewAcc(balance), participant,
                                    s.buy_in_amount)
    IN
    IF ~AuthorityConstraint(s, authority)
        THEN Err(s, "UnauthorizedAuthority", <<>>)
    ELSE IF ~(s.phase = "Cancelled")
        THEN Err(s, "TournamentNotCancelled", <<>>)
    ELSE IF ~Contains(s.participants, participant)
        THEN Err(s, "ParticipantNotFound", <<>>)
    ELSE IF acc.err # "Ok" THEN Err(s, acc.err, acc.transfers)
    ELSE Ok(s, acc.transfers)

refund_participant(s, authority, participant, balance) ==
    LET acc == transfer_from_escrow(NewAcc(balance), participant,
                                    s.buy_in_amount)
    IN
    IF ~AuthorityConstraint(s, authority)
        THEN Err(s, "UnauthorizedAuthority", <<>>)
    ELSE IF ~(s.phase = "Cancelled")
        THEN Err(s, "TournamentNotCancelled", <<>>)
    ELSE IF ~Contains(s.participants, participant)
        THEN Err(s, "ParticipantNotFound", <<>>)
    ELSE IF already_refunded(s, participant)
        THEN Err(s, "ParticipantAlreadyRefunded", <<>>)
    ELSE IF acc.err # "Ok" THEN Err(s, acc.err, acc.transfers)
    ELSE Ok([s EXCEPT !.refunded_participants = Append(@, participant)],
            acc.transfers)

\* ------------------------------------------------------------------------
\* Inputs of the instructions
\* ------------------------------------------------------------------------
Callers == {PROGRAM_AUTHORITY, PROGRAM_AUTHORITY + 1}

FeeValues == {0, 1, 1000}
MaxPlayersValues == {1, 3, 101}
MatchSizeValues == {1, 2, 4}
TournamentPrizeValues == {0, 4000, 6000, 60000}
MatchPrizeValues == {2500, 4500, 14036}
OperatorFeeValues == {0, 1500, 1600}

TournamentPayoutChoices ==
    {<<>>, <<10000>>, <<3333, 3333, 3334>>, <<9999>>, <<5000, 5001>>,
     <<10000, 0>>}

MatchPayoutChoices ==
    {<<>>, <<6000, 4000>>, <<10001>>, <<5000, 5000, 0>>}

\* Winner entries: every identity as an Individual, and Groups that are
\* empty, consume no position, hold a duplicate or the default identity,
\* and consume one, two or three positions.
WinnerEntries ==
    {Individual(k) : k \in Keys}
    \cup {Group(<<>>, 1), Group(<<1, 2>>, 0), Group(<<1, 2>>, 1),
          Group(<<1, 2>>, 2), Group(<<2, 2>>, 1), Group(<<1, 2, 3>>, 1),
          Group(<<1, 2, 3>>, 3), Group(<<DefaultKey, 1>>, 1)}

\* Entries combined into lists of two.
PairEntries ==
    {Individual(1), Individual(2), Group(<<>>, 1), Group(<<1, 2>>, 1),
     Group(<<1, 2>>, 2)}

WinnerLists ==
    {<<>>} \cup {<<a>> : a \in WinnerEntries}
    \cup {<<a, b>> : a \in PairEntries, b \in PairEntries}
    \cup {<<Individual(1), Individual(2), Individual(3)>>}

\* remaining_accounts: every identity's account, or all but the second one's.
RemainingAccountsChoices == {Keys, Keys \ {2}}

\* The inputs a handler reads: all of S when the call gets as far as reading
\* them, one representative when the handler returns before it does (the
\* result is then the same for every element of S).
InputsRead(S, reads) == IF reads THEN S ELSE {CHOOSE x \in S : TRUE}

\* The winner lists of distribute_match_rewards: its accounts decode the
\* list before anything else, so when the handler returns before reading it
\* there is one representative that decodes and one that does not.
WinnersRead(S, reads) ==
    IF reads THEN S
    ELSE {CHOOSE w \in S : InstructionArgsDecode(w)}
         \cup {CHOOSE w \in S : ~InstructionArgsDecode(w)}

\* ------------------------------------------------------------------------
\* The state machine
\* ------------------------------------------------------------------------
SumAmounts(transfers) ==
    SeqSum([i \in 1 .. Len(transfers) |-> transfers[i].amount])

NoPayments == [tournament |-> 0, matches |-> 0, operator_fee |-> 0,
               refunds |-> 0, outside |-> 0]

TotalPaid == paid.tournament + paid.matches + paid.operator_fee + paid.refunds

\* The vault of the tournament: the lamports of the escrow that came from
\* entry fees.
VaultBalance == escrow_lamports - paid.outside

\* Before initialize_tournament: no tournament account yet, and an escrow
\* address nobody has sent lamports to (CreditEscrow may, the first time
\* before the tournament exists).
Init ==
    /\ initialized = FALSE
    /\ tournament_state = EmptyState
    /\ escrow_lamports = 0
    /\ paid = NoPayments
    /\ last = [op |-> "none", authority |-> DefaultKey, key |-> 0,
               err |-> "Ok", transfers |-> <<>>, position_counter |-> 0,
               total_distributed |-> 0]

\* A failed operation leaves everything as it was before the call: the
\* transfers it had issued do not stand, and the account a failed
\* initialize_tournament was given is not kept.
TransactionCommitted(r) == r.err = "Ok"

Settled(r) == IF TransactionCommitted(r) THEN r.transfers ELSE <<>>

\* The effect of an instruction: the account holds what the handler left
\* in it, the escrow moves by the deposit and by the transfers that stand.
\* kind is the ledger the payments are booked to.
Commit(op, authority, key, kind, r) ==
    /\ last' = [op |-> op, authority |-> authority, key |-> key,
                err |-> r.err, transfers |-> r.transfers,
                position_counter |-> r.position_counter,
                total_distributed |-> r.total_distributed]
    /\ tournament_state' = r.state
    /\ escrow_lamports' =
           escrow_lamports + r.deposit - SumAmounts(Settled(r))
    /\ paid' = IF kind = "none" THEN paid
               ELSE [paid EXCEPT ![kind] = @ + SumAmounts(Settled(r))]

\* Somebody sends lamports to the escrow address with a system transfer.
\* The escrow is an UncheckedAccount found by its seeds; the program never
\* creates it and never looks at what it holds.
CreditEscrow ==
    /\ paid.outside = 0
    /\ escrow_lamports' = escrow_lamports + OutsideCredit
    /\ paid' = [paid EXCEPT !.outside = @ + OutsideCredit]
    /\ last' = [op |-> "credit_escrow", authority |-> DefaultKey, key |-> 0,
                err |-> "Ok", transfers |-> <<>>, position_counter |-> 0,
                total_distributed |-> 0]
    /\ UNCHANGED <<initialized, tournament_state>>

InitializeTournament ==
    /\ ~initialized
    /\ \E payer \in Callers, buy_in_amount \in FeeValues,
          max_players \in MaxPlayersValues, match_size \in MatchSizeValues,
          tournament_prize_percentage \in TournamentPrizeValues,
          match_prize_percentage \in MatchPrizeValues,
          operator_fee_percentage \in OperatorFeeValues,
          overflow_checks \in BOOLEAN :
        LET r == initialize_tournament(tournament_state, payer, buy_in_amount,
                     max_players, match_size, tournament_prize_percentage,
                     match_prize_percentage, operator_fee_percentage,
                     overflow_checks)
        IN  /\ Commit("initialize_tournament", payer, 0, "none", r)
            /\ initialized' = TransactionCommitted(r)

BuyIn ==
    /\ initialized
    /\ \E authority \in Callers :
        LET reads == /\ AuthorityConstraint(tournament_state, authority)
                     /\ tournament_state.phase = "Registration"
        IN  \E player \in InputsRead(Signers, reads),
               funded \in InputsRead(BOOLEAN, reads) :
            Commit("buy_in", authority, player, "none",
                   buy_in(tournament_state, player, authority, funded,
                          escrow_lamports))
    /\ UNCHANGED initialized

StartTournament ==
    /\ initialized
    /\ \E authority \in Callers :
        LET reads == /\ AuthorityConstraint(tournament_state, authority)
                     /\ tournament_state.phase = "Registration"
        IN  \E payout_percentages \in
                   InputsRead(TournamentPayoutChoices, reads),
               match_payout_percentages \in
                   InputsRead(MatchPayoutChoices, reads) :
            Commit("start_tournament", authority, 0, "none",
                   start_tournament(tournament_state, authority,
                       payout_percentages, match_payout_percentages))
    /\ UNCHANGED initialized

FinalizeTournament ==
    /\ initialized
    /\ \E authority \in Callers :
        LET reads == /\ AuthorityConstraint(tournament_state, authority)
                     /\ tournament_state.phase = "Playing"
        IN  \E winners \in InputsRead(WinnerLists, reads),
               remaining_accounts \in
                   InputsRead(RemainingAccountsChoices, reads) :
            Commit("finalize_tournament", authority, 0, "tournament",
                   finalize_tournament(tournament_state, authority, winners,
                                       remaining_accounts, escrow_lamports))
    /\ UNCHANGED initialized

DistributeMatchRewards ==
    /\ initialized
    /\ \E authority \in Callers :
        \E match_id_hash \in
               InputsRead(MatchIds,
                   /\ AuthorityConstraint(tournament_state, authority)
                   /\ tournament_state.phase = "Finalized") :
        LET reads == /\ AuthorityConstraint(tournament_state, authority)
                     /\ tournament_state.phase = "Finalized"
                     /\ ~match_already_paid(tournament_state, match_id_hash)
        IN  \E winners \in WinnersRead(WinnerLists, reads),
               remaining_accounts \in
                   InputsRead(RemainingAccountsChoices, reads) :
            Commit("distribute_match_rewards", authority, match_id_hash,
                   "matches",
                   distribute_match_rewards(tournament_state, authority,
                       match_id_hash, winners, remaining_accounts,
                       escrow_lamports))
    /\ UNCHANGED initialized

WithdrawOperatorFee ==
    /\ initialized
    /\ \E authority \in Callers :
        \E fee_recipient \in
               InputsRead(Signers,
                   /\ AuthorityConstraint(tournament_state, authority)
                   /\ tournament_state.phase = "Finalized"
                   /\ ~fee_already_withdrawn(tournament_state)) :
        Commit("withdraw_operator_fee", authority, fee_recipient,
               "operator_fee",
               withdraw_operator_fee(tournament_state, authority,
                                     fee_recipient, escrow_lamports))
    /\ UNCHANGED initialized

CancelTournament ==
    /\ initialized
    /\ \E authority \in Callers :
        Commit("cancel_tournament", authority, 0, "none",
               cancel_tournament(tournament_state, authority))
    /\ UNCHANGED initialized

RefundParticipant ==
    /\ initialized
    /\ \E authority \in Callers :
        \E participant \in
               InputsRead(Keys,
                   /\ AuthorityConstraint(tournament_state, authority)
                   /\ tournament_state.phase = "Cancelled") :
        Commit("refund_participant", authority, participant, "refunds",
               refund_participant(tournament_state, authority, participant,
                                  escrow_lamports))
    /\ UNCHANGED initialized

Next ==
    \/ InitializeTournament
    \/ BuyIn
    \/ StartTournament
    \/ FinalizeTournament
    \/ DistributeMatchRewards
    \/ WithdrawOperatorFee
    \/ CancelTournament
    \/ RefundParticipant
    \/ CreditEscrow

Spec == Init /\ [][Next]_vars

\* ------------------------------------------------------------------------
\* The program with an authority that goes on refunding: the authority's
\* refund_participant call for a participant that is owed a refund is not
\* postponed for ever.
\* ------------------------------------------------------------------------
RefundSucceeds(participant) ==
    /\ initialized
    /\ Commit("refund_participant", tournament_state.authority, participant,
              "refunds",
              refund_participant(tournament_state, tournament_state.authority,
                                 participant, escrow_lamports))
    /\ last'.err = "Ok"
    /\ UNCHANGED initialized

FairSpec ==
    Spec /\ \A participant \in Signers : WF_vars(RefundSucceeds(participant))

\* ------------------------------------------------------------------------
\* The four-player tournament: the same handlers, called by the authority
\* with an entry fee of 1000, room for ScenarioPlayerCount players in one
\* match, the split 6000/2500/1500, one tournament payout position and two
\* match payout positions.
\* ------------------------------------------------------------------------
ScenarioPlayers == 1 .. ScenarioPlayerCount

ScenarioInitializeTournament ==
    /\ ~initialized
    /\ \E overflow_checks \in BOOLEAN :
        LET r == initialize_tournament(tournament_state, PROGRAM_AUTHORITY,
                     1000, 4, 4, 6000, 2500, 1500, overflow_checks)
        IN  /\ Commit("initialize_tournament", PROGRAM_AUTHORITY, 0, "none", r)
            /\ initialized' = (r.err = "Ok")

ScenarioBuyIn ==
    /\ initialized
    /\ \E player \in ScenarioPlayers :
        Commit("buy_in", PROGRAM_AUTHORITY, player, "none",
               buy_in(tournament_state, player, PROGRAM_AUTHORITY, TRUE,
                      escrow_lamports))
    /\ UNCHANGED initialized

ScenarioStartTournament ==
    /\ initialized
    /\ Commit("start_tournament", PROGRAM_AUTHORITY, 0, "none",
              start_tournament(tournament_state, PROGRAM_AUTHORITY,
                               <<10000>>, <<6000, 4000>>))
    /\ UNCHANGED initialized

ScenarioFinalizeTournament ==
    /\ initialized
    /\ \E w \in ScenarioPlayers :
        Commit("finalize_tournament", PROGRAM_AUTHORITY, 0, "tournament",
               finalize_tournament(tournament_state, PROGRAM_AUTHORITY,
                   <<Individual(w)>>, ScenarioPlayers, escrow_lamports))
    /\ UNCHANGED initialized

ScenarioDistributeMatchRewards ==
    /\ initialized
    /\ \E match_id_hash \in MatchIds, a \in ScenarioPlayers,
          b \in ScenarioPlayers :
        /\ a # b
        /\ Commit("distribute_match_rewards", PROGRAM_AUTHORITY,
                  match_id_hash, "matches",
                  distribute_match_rewards(tournament_state,
                      PROGRAM_AUTHORITY, match_id_hash,
                      <<Individual(a), Individual(b)>>, ScenarioPlayers,
                      escrow_lamports))
    /\ UNCHANGED initialized

ScenarioWithdrawOperatorFee ==
    /\ initialized
    /\ Commit("withdraw_operator_fee", PROGRAM_AUTHORITY, PROGRAM_AUTHORITY,
              "operator_fee",
              withdraw_operator_fee(tournament_state, PROGRAM_AUTHORITY,
                                    PROGRAM_AUTHORITY, escrow_lamports))
    /\ UNCHANGED initialized

ScenarioNext ==
    \/ ScenarioInitializeTournament
    \/ ScenarioBuyIn
    \/ ScenarioStartTournament
    \/ ScenarioFinalizeTournament
    \/ ScenarioDistributeMatchRewards
    \/ ScenarioWithdrawOperatorFee

ScenarioSpec == Init /\ [][ScenarioNext]_vars

\* ------------------------------------------------------------------------
\* Vocabulary of the properties
\* ------------------------------------------------------------------------
\* floor(entry fee x current_players x bps / 10000), as the specification
\* defines the three pools.
PoolOf(s, bps) == (s.buy_in_amount * s.current_players * bps) \div BasisPoints

TournamentPool(s) == PoolOf(s, s.tournament_prize_percentage)

TotalMatchPool(s) == PoolOf(s, s.match_prize_percentage)

OperatorFee(s) == PoolOf(s, s.operator_fee_percentage)

\* The step is a call of op; it returned Ok; it was made by the authority.
Called(op) == last'.op = op

\* An instruction of the program returned Ok.
Succeeded == last'.err = "Ok" /\ last'.op # "credit_escrow"

ByAuthority == last'.authority = tournament_state.authority

\* A call that returns an error changes neither the account nor the vault.
NothingMoved == UNCHANGED <<tournament_state, escrow_lamports, paid>>

\* ------------------------------------------------------------------------
\* Properties
\* ------------------------------------------------------------------------

\* C1: the phase changes only by Registration -> Playing (a successful
\* start_tournament), Playing -> Finalized (a successful
\* finalize_tournament) and Registration -> Cancelled (a successful
\* cancel_tournament); no other instruction changes it, and a Finalized or
\* Cancelled phase never changes again.
C1_PhaseTransitions ==
    [][/\ tournament_state'.phase # tournament_state.phase =>
            /\ Succeeded
            /\ \/ /\ tournament_state.phase = "Registration"
                  /\ tournament_state'.phase = "Playing"
                  /\ Called("start_tournament")
               \/ /\ tournament_state.phase = "Playing"
                  /\ tournament_state'.phase = "Finalized"
                  /\ Called("finalize_tournament")
               \/ /\ tournament_state.phase = "Registration"
                  /\ tournament_state'.phase = "Cancelled"
                  /\ Called("cancel_tournament")
       /\ tournament_state.phase \in {"Finalized", "Cancelled"} =>
            tournament_state'.phase = tournament_state.phase]_vars

\* C1 witness: instructions keep succeeding on a Finalized tournament (a
\* match was paid after the operator fee was withdrawn).
C1_Witness ==
    /\ tournament_state.phase = "Finalized"
    /\ tournament_state.operator_fee_withdrawn
    /\ last.op = "distribute_match_rewards"
    /\ last.err = "Ok"

\* C2 (as claimed): the amounts paid out of the vault (tournament prizes,
\* match prizes, operator fee, refunds) never add up to more than
\* entry fee x current_players: the vault balance, defined as
\* entry fee x current_players minus everything paid out, is never negative.
\* The program does not keep it once the escrow holds lamports that are not
\* entry fees: distribute_match_rewards pays a per-match pool for every
\* fresh match identifier, and nothing in the program stops the payouts at
\* the entry fees.
C2_VaultNeverNegative ==
    initialized =>
        tournament_state.buy_in_amount * tournament_state.current_players
            - TotalPaid >= 0

\* C3: whatever the winner list, the transfers a finalize_tournament call
\* issues never add up to more than the tournament pool; tournament prizes
\* are paid by one successful finalize_tournament at most (it finds the
\* phase Playing and nothing paid yet), so the total paid for tournament
\* prizes stays within the tournament pool.
C3_TournamentPrizesWithinPool ==
    [][/\ Called("finalize_tournament") =>
            /\ SumAmounts(last'.transfers) <= TournamentPool(tournament_state)
            /\ Succeeded =>
                  /\ tournament_state.phase = "Playing"
                  /\ paid.tournament = 0
                  /\ paid'.tournament = SumAmounts(last'.transfers)
                  /\ tournament_state'.phase = "Finalized"
       /\ ~(Called("finalize_tournament") /\ Succeeded) =>
            paid'.tournament = paid.tournament
       /\ paid'.tournament <= TournamentPool(tournament_state')]_vars

\* C3 witness: a finalize_tournament paid an Individual and then a Group.
C3_Witness ==
    /\ last.op = "finalize_tournament"
    /\ last.err = "Ok"
    /\ Len(last.transfers) >= 3
    /\ paid.tournament > 0

\* C4 (as claimed): a successful finalize_tournament whose entries consume
\* exactly the positions 0 .. len(tournament_payouts)-1 transfers the whole
\* tournament pool.
C4_ExactCoverPaysWholePool ==
    (/\ last.op = "finalize_tournament"
     /\ last.err = "Ok"
     /\ last.position_counter = Len(tournament_state.tournament_payouts))
        => SumAmounts(last.transfers) = TournamentPool(tournament_state)

\* C5 (as claimed): the total paid for match prizes over all
\* distribute_match_rewards calls is at most the total match pool.
C5_MatchPrizesWithinTotalPool ==
    initialized => paid.matches <= TotalMatchPool(tournament_state)

\* C6: a distribute_match_rewards call for an identifier that is already in
\* paid_match_ids never succeeds and moves nothing (the authority's call
\* fails MatchAlreadyPaid); a successful call appends its identifier, which
\* was not in the ledger; paid_match_ids never holds an identifier twice.
\* As claimed. distribute_match_rewards does not keep it: a winner list
\* that does not decode as the Vec<Pubkey> its accounts declare is
\* rejected with InstructionDidNotDeserialize before the constraints and
\* the handler (InstructionArgsDecode).
C6_MatchPaidOnce ==
    [][/\ Called("distribute_match_rewards") =>
            /\ Contains(tournament_state.paid_match_ids, last'.key) =>
                  /\ ~Succeeded
                  /\ last'.transfers = <<>>
                  /\ NothingMoved
                  /\ ByAuthority => last'.err = "MatchAlreadyPaid"
            /\ Succeeded =>
                  tournament_state'.paid_match_ids =
                      Append(tournament_state.paid_match_ids, last'.key)
       /\ NoDuplicates(tournament_state'.paid_match_ids)]_vars

\* C7: a successful refund_participant(p) finds p not yet refunded,
\* transfers exactly the entry fee to p and appends p to
\* refunded_participants; a call for a refunded p never succeeds and moves
\* nothing (the authority's call fails ParticipantAlreadyRefunded);
\* refunded_participants has no duplicates and holds participants only.
C7_RefundOnce ==
    [][/\ Called("refund_participant") =>
            /\ Succeeded =>
                  /\ ~Contains(tournament_state.refunded_participants,
                               last'.key)
                  /\ last'.transfers =
                         <<[to |-> last'.key,
                            amount |-> tournament_state.buy_in_amount]>>
                  /\ escrow_lamports' =
                         escrow_lamports - tournament_state.buy_in_amount
                  /\ tournament_state' =
                         [tournament_state EXCEPT
                             !.refunded_participants = Append(@, last'.key)]
            /\ Contains(tournament_state.refunded_participants, last'.key) =>
                  /\ ~Succeeded
                  /\ last'.transfers = <<>>
                  /\ NothingMoved
                  /\ ByAuthority => last'.err = "ParticipantAlreadyRefunded"
       /\ NoDuplicates(tournament_state'.refunded_participants)
       /\ Range(tournament_state'.refunded_participants)
              \subseteq Range(tournament_state'.participants)]_vars

\* C7 witness: a participant was refunded and a second refund was rejected
\* while another participant's fee is still in the vault.
C7_Witness ==
    /\ last.op = "refund_participant"
    /\ last.err = "ParticipantAlreadyRefunded"
    /\ Contains(tournament_state.refunded_participants, last.key)
    /\ escrow_lamports > 0

\* C8: withdraw_operator_fee succeeds only in phase Finalized with the latch
\* unset, transfers exactly floor(fee x players x operator bps / 10000) and
\* sets the latch; the latch is never reset, and with the latch set a call
\* never succeeds and transfers nothing (the authority's call fails
\* OperatorFeeAlreadyWithdrawn).
C8_OperatorFeeOnce ==
    [][/\ Called("withdraw_operator_fee") =>
            /\ Succeeded =>
                  /\ tournament_state.phase = "Finalized"
                  /\ ~tournament_state.operator_fee_withdrawn
                  /\ last'.transfers =
                         <<[to |-> last'.key,
                            amount |-> OperatorFee(tournament_state)]>>
                  /\ paid'.operator_fee = OperatorFee(tournament_state)
                  /\ tournament_state' =
                         [tournament_state EXCEPT
                             !.operator_fee_withdrawn = TRUE]
            /\ tournament_state.operator_fee_withdrawn =>
                  /\ ~Succeeded
                  /\ last'.transfers = <<>>
                  /\ NothingMoved
                  /\ ByAuthority =>
                        last'.err = "OperatorFeeAlreadyWithdrawn"
       /\ tournament_state.operator_fee_withdrawn =>
            tournament_state'.operator_fee_withdrawn
       /\ ~Called("withdraw_operator_fee") =>
            paid'.operator_fee = paid.operator_fee]_vars

\* C8 witness: the fee was withdrawn and a second withdrawal was rejected
\* although the vault could still pay it.
C8_Witness ==
    /\ last.op = "withdraw_operator_fee"
    /\ last.err = "OperatorFeeAlreadyWithdrawn"
    /\ paid.operator_fee > 0
    /\ escrow_lamports >= OperatorFee(tournament_state)

\* C9: participants holds no identity twice and
\* current_players = length(participants) <= max_players; a buy_in on a full
\* tournament fails TournamentFull and a buy_in of a registered player fails
\* (AlreadyRegistered while there is room), both moving nothing.
C9_Participants ==
    [][/\ NoDuplicates(tournament_state'.participants)
       /\ tournament_state'.current_players =
              Len(tournament_state'.participants)
       /\ tournament_state'.current_players <= tournament_state'.max_players
       /\ (/\ Called("buy_in")
           /\ ByAuthority
           /\ tournament_state.phase = "Registration") =>
            /\ tournament_state.current_players = tournament_state.max_players
                  => last'.err = "TournamentFull" /\ NothingMoved
            /\ Contains(tournament_state.participants, last'.key) =>
                  /\ ~Succeeded
                  /\ NothingMoved
                  /\ tournament_state.current_players
                         < tournament_state.max_players
                        => last'.err = "AlreadyRegistered"]_vars

\* C9 witness: the tournament is full and a further buy_in was rejected.
C9_Witness ==
    /\ last.op = "buy_in"
    /\ last.err = "TournamentFull"
    /\ tournament_state.current_players = tournament_state.max_players
    /\ Len(tournament_state.participants) >= 2

\* C10 (as claimed): for the program authority, initialize_tournament
\* succeeds exactly when fee > 0, 2 <= max_players <= 100,
\* 2 <= match_size <= max_players, the three percentages add up (as
\* integers) to 10000, tournament prize >= 5000 and 0 < operator fee <= 1500;
\* the account it creates is in Registration with empty sequences and
\* ledgers, the latch unset and the creator as authority.
ValidConfig(buy_in_amount, max_players, match_size, tournament_prize_percentage, match_prize_percentage, operator_fee_percentage) ==
    /\ buy_in_amount > 0
    /\ 2 <= max_players /\ max_players <= 100
    /\ 2 <= match_size /\ match_size <= max_players
    /\ tournament_prize_percentage + match_prize_percentage
           + operator_fee_percentage = 10000
    /\ tournament_prize_percentage >= 5000
    /\ 0 < operator_fee_percentage /\ operator_fee_percentage <= 1500

C10_CreateIffValidConfig ==
    ~initialized =>
        \A fee \in FeeValues, mp \in MaxPlayersValues, ms \in MatchSizeValues,
           tpp \in TournamentPrizeValues, mpp \in MatchPrizeValues,
           ofp \in OperatorFeeValues, overflow_checks \in BOOLEAN :
            LET r == initialize_tournament(tournament_state,
                         PROGRAM_AUTHORITY, fee, mp, ms, tpp, mpp, ofp,
                         overflow_checks)
            IN  /\ (r.err = "Ok") <=> ValidConfig(fee, mp, ms, tpp, mpp, ofp)
                /\ r.err = "Ok" =>
                      r.state = [EmptyState EXCEPT
                          !.buy_in_amount = fee,
                          !.max_players = mp,
                          !.match_size = ms,
                          !.tournament_prize_percentage = tpp,
                          !.match_prize_percentage = mpp,
                          !.operator_fee_percentage = ofp,
                          !.authority = PROGRAM_AUTHORITY]

\* C11: for the tournament's authority, start_tournament succeeds exactly
\* when the phase is Registration, at least one player is registered, both
\* sequences are non-empty with every entry in (0, 10000] and a sum of
\* exactly 10000, the tournament sequence has at most 20 entries and at most
\* current_players entries, and the match sequence has at most 8 entries; a
\* successful call stores both sequences as given and sets the phase to
\* Playing, changing nothing else.
ValidPayoutSequence(percentages, max_length) ==
    /\ percentages # <<>>
    /\ \A i \in DOMAIN percentages :
          0 < percentages[i] /\ percentages[i] <= 10000
    /\ SeqSum(percentages) = 10000
    /\ Len(percentages) <= max_length

\* Sequences tried at every reachable state: those the instruction is
\* called with, one of 21 tournament positions, and match sequences of 8
\* and of 9 positions (each of the three sums to 10000).
TournamentPayoutProbes ==
    TournamentPayoutChoices
    \cup {[i \in 1 .. 21 |-> IF i = 21 THEN 480 ELSE 476]}

MatchPayoutProbes ==
    MatchPayoutChoices
    \cup {[i \in 1 .. 8 |-> 1250],
          [i \in 1 .. 9 |-> IF i = 9 THEN 1112 ELSE 1111]}

C11_StartIffValid ==
    initialized =>
        \A p \in TournamentPayoutProbes, m \in MatchPayoutProbes :
            LET r == start_tournament(tournament_state,
                         tournament_state.authority, p, m)
            IN  /\ (r.err = "Ok") <=>
                      /\ tournament_state.phase = "Registration"
                      /\ tournament_state.current_players >= 1
                      /\ ValidPayoutSequence(p, 20)
                      /\ Len(p) <= tournament_state.current_players
                      /\ ValidPayoutSequence(m, 8)
                /\ r.err = "Ok" =>
                      r.state = [tournament_state EXCEPT
                                    !.tournament_payouts = p,
                                    !.match_payout_percentages = m,
                                    !.phase = "Playing"]

\* C11 witness: a start with as many payout positions as registered players
\* succeeded and the sequences are stored.
C11_Witness ==
    /\ last.op = "start_tournament"
    /\ last.err = "Ok"
    /\ tournament_state.phase = "Playing"
    /\ Len(tournament_state.tournament_payouts)
           = tournament_state.current_players
    /\ tournament_state.current_players >= 2
    /\ tournament_state.match_payout_percentages = <<6000, 4000>>

\* C12: an instruction that returns an error (whichever instruction, in
\* whichever state, with whichever input) leaves every field of the
\* tournament account as it was before the call: every handler makes its
\* first write after its last step that can fail.
C12_ErrorLeavesStateUnchanged ==
    [][(last'.op # "credit_escrow" /\ last'.err # "Ok") =>
          tournament_state' = tournament_state]_vars

\* C12 witness: a distribute_match_rewards call failed after it had issued a
\* transfer, and the ledger of paid matches is still empty.
C12_Witness ==
    /\ last.op = "distribute_match_rewards"
    /\ last.err = "MissingWinnerAccount"
    /\ last.transfers # <<>>
    /\ tournament_state.paid_match_ids = <<>>
    /\ tournament_state.phase = "Finalized"

\* C13 (as claimed): a finalize_tournament or distribute_match_rewards call
\* that fails with MissingWinnerAccount, NoMatchRewards, InvalidWinnerCount
\* or CalculationOverflow has issued no transfer out of the vault.
C13_NoTransferBeforeValidation ==
    (/\ last.op \in {"finalize_tournament", "distribute_match_rewards"}
     /\ last.err \in {"MissingWinnerAccount", "NoMatchRewards",
                      "InvalidWinnerCount", "CalculationOverflow"})
        => last.transfers = <<>>

\* C14: a Group of n players that is paid a combined amount C (by
\* finalize_tournament out of the tournament pool, by
\* distribute_match_rewards out of the per-match pool) gets floor(C/n) for
\* each of its first n-1 players, in group order, and C - (n-1) x floor(C/n)
\* for the last one: the transfers to the group add up to exactly C
\* (C = 100, n = 3 gives 33, 33, 34).
GroupShares(players, combined) ==
    [i \in 1 .. Len(players) |->
        [to |-> players[i],
         amount |-> IF i < Len(players)
                    THEN combined \div Len(players)
                    ELSE combined
                           - (Len(players) - 1) * (combined \div Len(players))]]

\* The combined amount of a Group that consumes the positions
\* first .. first + consumed - 1 (0-based) of payouts.
CombinedAmount(pool, payouts, first, consumed) ==
    (pool * SeqSum([j \in 1 .. Len(payouts) |->
                      IF first < j /\ j <= first + consumed
                      THEN payouts[j] ELSE 0])) \div 10000

\* What a successful call must have transferred for the winner lists
\* <<Group>> and <<Individual, Group>>.
GroupPaidExactly(r, winners, pool, payouts) ==
    LET g == winners[Len(winners)]
        first == Len(winners) - 1
        shares == GroupShares(g.players,
                      CombinedAmount(pool, payouts, first,
                                     g.positions_consumed))
    IN  r.err = "Ok" =>
            /\ Len(r.transfers) = first + Len(g.players)
            /\ \A i \in 1 .. Len(g.players) :
                  r.transfers[first + i] = shares[i]
            /\ SeqSum([i \in 1 .. Len(g.players) |->
                          r.transfers[first + i].amount])
                 = CombinedAmount(pool, payouts, first, g.positions_consumed)

\* The winner lists <<Group>> and <<Individual, Group>>.
GroupLists ==
    {w \in WinnerLists :
        /\ w # <<>>
        /\ w[Len(w)].kind = "Group"
        /\ \A i \in 1 .. Len(w) - 1 : w[i].kind = "Individual"}

MatchPoolOf(s) ==
    ((s.buy_in_amount * s.current_players * s.match_prize_percentage)
        \div 10000)
      \div ((s.current_players + s.match_size - 1) \div s.match_size)

C14_GroupSplitExact ==
    /\ LET acc == GroupLoop([NewAcc(100) EXCEPT !.remaining_amount = 100],
                            <<1, 2, 3>>, 1, 100 \div 3, Keys)
       IN  /\ acc.err = "Ok"
           /\ [i \in 1 .. 3 |-> acc.transfers[i].amount] = <<33, 33, 34>>
    /\ (initialized /\ tournament_state.phase = "Playing") =>
          \A winners \in GroupLists :
              GroupPaidExactly(
                  finalize_tournament(tournament_state,
                      tournament_state.authority, winners, Keys,
                      escrow_lamports),
                  winners, TournamentPool(tournament_state),
                  tournament_state.tournament_payouts)
    /\ (initialized /\ tournament_state.phase = "Finalized") =>
          \A winners \in GroupLists, id \in MatchIds :
              GroupPaidExactly(
                  distribute_match_rewards(tournament_state,
                      tournament_state.authority, id, winners, Keys,
                      escrow_lamports),
                  winners, MatchPoolOf(tournament_state),
                  tournament_state.match_payout_percentages)

\* C14 witness: a Group of three was paid by finalize_tournament and its
\* last player received more than the first (the remainder).
C14_Witness ==
    /\ last.op = "finalize_tournament"
    /\ last.err = "Ok"
    /\ Len(last.transfers) = 3
    /\ last.position_counter = 1
    /\ last.transfers[1].amount = last.transfers[2].amount
    /\ last.transfers[3].amount > last.transfers[1].amount

\* C15: in the tournament with entry fee 1000, 4 registered players,
\* match_size 4, the split 6000/2500/1500, tournament payouts [10000] and
\* match payouts [6000, 4000]: a finalize_tournament with one Individual
\* winner transfers 2400 to that winner; a distribute_match_rewards with two
\* Individual winners transfers 600 and 400; withdraw_operator_fee transfers
\* 600; once the three have been done the total paid out is 4000 and the
\* vault is empty.
FourPlayerTournament ==
    /\ initialized
    /\ tournament_state.buy_in_amount = 1000
    /\ tournament_state.current_players = 4
    /\ tournament_state.match_size = 4
    /\ tournament_state.tournament_prize_percentage = 6000
    /\ tournament_state.match_prize_percentage = 2500
    /\ tournament_state.operator_fee_percentage = 1500
    /\ tournament_state.tournament_payouts = <<10000>>
    /\ tournament_state.match_payout_percentages = <<6000, 4000>>

AmountsOf(transfers) == [i \in 1 .. Len(transfers) |-> transfers[i].amount]

C15_FourPlayerScenario ==
    FourPlayerTournament =>
        /\ (last.op = "finalize_tournament" /\ last.err = "Ok") =>
              /\ AmountsOf(last.transfers) = <<2400>>
              /\ Contains(tournament_state.participants,
                          last.transfers[1].to)
        /\ (last.op = "distribute_match_rewards" /\ last.err = "Ok") =>
              AmountsOf(last.transfers) = <<600, 400>>
        /\ (last.op = "withdraw_operator_fee" /\ last.err = "Ok") =>
              AmountsOf(last.transfers) = <<600>>
        /\ tournament_state.phase = "Finalized" => paid.tournament = 2400
        /\ Len(tournament_state.paid_match_ids) = 1 => paid.matches = 1000
        /\ tournament_state.operator_fee_withdrawn => paid.operator_fee = 600
        /\ (/\ tournament_state.phase = "Finalized"
            /\ Len(tournament_state.paid_match_ids) = 1
            /\ tournament_state.operator_fee_withdrawn) =>
              /\ TotalPaid = 4000
              /\ escrow_lamports = 0

\* C15 witness: the four-player tournament was finalized, one match was paid
\* and the operator fee was withdrawn last.
C15_Witness ==
    /\ FourPlayerTournament
    /\ tournament_state.phase = "Finalized"
    /\ Len(tournament_state.paid_match_ids) = 1
    /\ last.op = "withdraw_operator_fee"
    /\ last.err = "Ok"
    /\ TotalPaid = 4000
    /\ escrow_lamports = 0

\* C16: in every reachable state whose phase is Cancelled the vault holds
\* entry fee x (number of participants - number of refunded participants):
\* a partly refunded tournament is a state like any other, the vault is
\* empty once every participant is refunded, and a further refund of a
\* refunded participant fails.
C16_CancelledVault ==
    (initialized /\ tournament_state.phase = "Cancelled") =>
        /\ VaultBalance =
               tournament_state.buy_in_amount
                 * (Len(tournament_state.participants)
                      - Len(tournament_state.refunded_participants))
        /\ VaultBalance =
               tournament_state.buy_in_amount
                 * tournament_state.current_players - TotalPaid
        /\ Len(tournament_state.refunded_participants)
               <= Len(tournament_state.participants)
        /\ paid.refunds =
               tournament_state.buy_in_amount
                 * Len(tournament_state.refunded_participants)
        /\ Range(tournament_state.refunded_participants)
               = Range(tournament_state.participants) => VaultBalance = 0
        /\ \A p \in Keys :
              LET r == refund_participant(tournament_state,
                           tournament_state.authority, p, escrow_lamports)
              IN  IF Contains(tournament_state.refunded_participants, p)
                  THEN r.err = "ParticipantAlreadyRefunded"
                  ELSE r.err = "Ok" =>
                          r.transfers =
                              <<[to |-> p,
                                 amount |-> tournament_state.buy_in_amount]>>

\* C16 witness: two registered players were refunded by two calls, the vault
\* is empty, and a third refund call failed.
C16_Witness ==
    /\ tournament_state.phase = "Cancelled"
    /\ Len(tournament_state.participants) = 2
    /\ Len(tournament_state.refunded_participants) = 2
    /\ paid.refunds = 2 * tournament_state.buy_in_amount
    /\ tournament_state.buy_in_amount > 0
    /\ escrow_lamports = 0
    /\ last.op = "refund_participant"
    /\ last.err = "ParticipantAlreadyRefunded"

\* C17: in phase Cancelled the authority's refund_participant(p) succeeds
\* for every participant p that is not in refunded_participants; so, the
\* refund for each participant not being postponed for ever, a Cancelled
\* tournament reaches the state where every participant is refunded and the
\* vault is empty, and in that state no instruction succeeds, whoever calls
\* it and with whatever input.
AllRefunded ==
    /\ tournament_state.phase = "Cancelled"
    /\ Range(tournament_state.refunded_participants)
           = Range(tournament_state.participants)
    /\ VaultBalance = 0

RefundEnabled ==
    (initialized /\ tournament_state.phase = "Cancelled") =>
        \A p \in Keys :
            (/\ Contains(tournament_state.participants, p)
             /\ ~Contains(tournament_state.refunded_participants, p)) =>
                /\ refund_participant(tournament_state,
                       tournament_state.authority, p, escrow_lamports).err
                     = "Ok"
                /\ ENABLED <<RefundSucceeds(p)>>_vars

NothingSucceeds ==
    /\ \A a \in Callers, p \in Signers, funded \in BOOLEAN :
          buy_in(tournament_state, p, a, funded, escrow_lamports).err # "Ok"
    /\ \A a \in Callers, tp \in TournamentPayoutChoices,
          mp \in MatchPayoutChoices :
          start_tournament(tournament_state, a, tp, mp).err # "Ok"
    /\ \A a \in Callers, w \in WinnerLists,
          ra \in RemainingAccountsChoices :
          /\ finalize_tournament(tournament_state, a, w, ra,
                                 escrow_lamports).err # "Ok"
          /\ \A id \in MatchIds :
                distribute_match_rewards(tournament_state, a, id, w, ra,
                                         escrow_lamports).err # "Ok"
    /\ \A a \in Callers, p \in Signers :
          withdraw_operator_fee(tournament_state, a, p,
                                escrow_lamports).err # "Ok"
    /\ \A a \in Callers : cancel_tournament(tournament_state, a).err # "Ok"
    /\ \A a \in Callers, p \in Keys :
          refund_participant(tournament_state, a, p,
                             escrow_lamports).err # "Ok"

C17_RefundsComplete ==
    /\ [](RefundEnabled /\ (AllRefunded => NothingSucceeds))
    /\ (tournament_state.phase = "Cancelled") ~> AllRefunded
    /\ [][AllRefunded => ~Succeeded]_vars

\* C17 witness: a tournament cancelled with three participants has refunded
\* the last of them.
C17_Witness ==
    /\ AllRefunded
    /\ Len(tournament_state.participants) = 3
    /\ last.op = "refund_participant"
    /\ last.err = "Ok"

\* C18: an instruction the authority invokes outside the phase it is legal
\* in fails with its phase error whatever its other arguments: buy_in and
\* start_tournament outside Registration and finalize_tournament outside
\* Playing fail InvalidPhase; distribute_match_rewards and
\* withdraw_operator_fee outside Finalized fail TournamentNotFinalized;
\* cancel_tournament outside Registration fails TournamentAlreadyStarted;
\* refund_participant outside Cancelled fails TournamentNotCancelled.
\* As claimed. distribute_match_rewards does not keep it: a winner list
\* that does not decode as the Vec<Pubkey> its accounts declare is
\* rejected with InstructionDidNotDeserialize before the constraints and
\* the handler (InstructionArgsDecode).
C18_PhaseErrors ==
    initialized =>
        LET s == tournament_state
            a == tournament_state.authority
        IN  /\ s.phase # "Registration" =>
                  /\ \A p \in Signers, funded \in BOOLEAN :
                        buy_in(s, p, a, funded, escrow_lamports).err
                            = "InvalidPhase"
                  /\ \A tp \in TournamentPayoutProbes,
                        mp \in MatchPayoutProbes :
                        start_tournament(s, a, tp, mp).err = "InvalidPhase"
                  /\ cancel_tournament(s, a).err = "TournamentAlreadyStarted"
            /\ s.phase # "Playing" =>
                  \A w \in WinnerLists, ra \in RemainingAccountsChoices :
                      finalize_tournament(s, a, w, ra, escrow_lamports).err
                          = "InvalidPhase"
            /\ s.phase # "Finalized" =>
                  /\ \A id \in MatchIds, w \in WinnerLists,
                        ra \in RemainingAccountsChoices :
                        distribute_match_rewards(s, a, id, w, ra,
                            escrow_lamports).err = "TournamentNotFinalized"
                  /\ \A p \in Signers :
                        withdraw_operator_fee(s, a, p, escrow_lamports).err
                            = "TournamentNotFinalized"
            /\ s.phase # "Cancelled" =>
                  \A p \in Keys :
                      refund_participant(s, a, p, escrow_lamports).err
                          = "TournamentNotCancelled"

\* C19: the authority of the account is the creator (the payer of
\* initialize_tournament) and never changes; start_tournament,
\* finalize_tournament, distribute_match_rewards, withdraw_operator_fee,
\* cancel_tournament and refund_participant each fail UnauthorizedAuthority,
\* with no transfer and the account as it was, when the caller is not the
\* tournament's authority.
\* As claimed. distribute_match_rewards does not keep it: a winner list
\* that does not decode as the Vec<Pubkey> its accounts declare is
\* rejected with InstructionDidNotDeserialize before the constraints and
\* the handler (InstructionArgsDecode).
Unauthorized(r, s) ==
    /\ r.err = "UnauthorizedAuthority"
    /\ r.transfers = <<>>
    /\ r.state = s

C19_AuthorityGated ==
    /\ \A payer \in Callers, overflow_checks \in BOOLEAN :
          LET r == initialize_tournament(EmptyState, payer, 1000, 3, 2,
                                         6000, 2500, 1500, overflow_checks)
          IN  r.err = "Ok" => r.state.authority = payer
    /\ ~initialized => tournament_state.authority = DefaultKey
    /\ initialized =>
        LET s == tournament_state
        IN  /\ s.authority = PROGRAM_AUTHORITY
            /\ \A a \in Signers \ {s.authority} :
                  /\ \A tp \in TournamentPayoutChoices,
                        mp \in MatchPayoutChoices :
                        Unauthorized(start_tournament(s, a, tp, mp), s)
                  /\ \A w \in WinnerLists, ra \in RemainingAccountsChoices :
                        /\ Unauthorized(finalize_tournament(s, a, w, ra,
                                            escrow_lamports), s)
                        /\ \A id \in MatchIds :
                              Unauthorized(distribute_match_rewards(s, a, id,
                                               w, ra, escrow_lamports), s)
                  /\ \A p \in Signers :
                        Unauthorized(withdraw_operator_fee(s, a, p,
                                         escrow_lamports), s)
                  /\ Unauthorized(cancel_tournament(s, a), s)
                  /\ \A p \in Keys :
                        Unauthorized(refund_participant(s, a, p,
                                         escrow_lamports), s)

\* C20: an Individual winner whose position is at or beyond the length of
\* the payout sequence gets no transfer, the position counter still advances
\* by one for it, and the call does not fail because of it: a list of
\* Individual winners (all participants) longer than the payout sequence has
\* the result of the list cut to the length of the sequence (it succeeds
\* when that one does, with the same transfers), the counter ending at the
\* length of the list.
IndividualLists ==
    {w \in WinnerLists :
        w # <<>> /\ \A i \in DOMAIN w : w[i].kind = "Individual"}

SameButCounter(r, q, winners, payouts) ==
    /\ r.err = q.err
    /\ r.transfers = q.transfers
    /\ r.state = q.state
    /\ r.err = "Ok" =>
          /\ r.position_counter = Len(winners)
          /\ q.position_counter = Len(payouts)
          /\ Len(r.transfers) = Len(payouts)
          /\ \A i \in 1 .. Len(payouts) :
                r.transfers[i].to = winners[i].players[1]

ExcessIndividuals(s, w, payouts) ==
    /\ Len(w) > Len(payouts)
    /\ \A i \in DOMAIN w : is_participant(s, w[i].players[1])

C20_ExcessIndividualsUnpaid ==
    initialized =>
        LET s == tournament_state
            a == tournament_state.authority
        IN  /\ s.phase = "Playing" =>
                \A w \in IndividualLists, ra \in RemainingAccountsChoices :
                    ExcessIndividuals(s, w, s.tournament_payouts) =>
                        LET r == finalize_tournament(s, a, w, ra,
                                                     escrow_lamports)
                            q == finalize_tournament(s, a,
                                     SubSeq(w, 1, Len(s.tournament_payouts)),
                                     ra, escrow_lamports)
                        IN  SameButCounter(r, q, w, s.tournament_payouts)
            /\ s.phase = "Finalized" =>
                \A w \in IndividualLists, ra \in RemainingAccountsChoices,
                   id \in MatchIds :
                    ExcessIndividuals(s, w, s.match_payout_percentages) =>
                        SameButCounter(
                            distribute_match_rewards(s, a, id, w, ra,
                                                     escrow_lamports),
                            distribute_match_rewards(s, a, id,
                                SubSeq(w, 1, Len(s.match_payout_percentages)),
                                ra, escrow_lamports),
                            w, s.match_payout_percentages)

\* C20 witness: a distribute_match_rewards call with more Individual winners
\* than match payout positions succeeded and paid only the first of them.
C20_Witness ==
    /\ last.op = "distribute_match_rewards"
    /\ last.err = "Ok"
    /\ last.position_counter
           > Len(tournament_state.match_payout_percentages)
    /\ Len(last.transfers) = Len(tournament_state.match_payout_percentages)

\* C21: the winner entries are processed in list order with a position
\* counter that starts at 0 and advances by 1 for an Individual and by k for
\* a Group(players, k): entry i is paid from the positions that start at the
\* sum of the positions consumed by the entries before it, a Group's combined
\* percentage is the sum of the payout entries at its k positions (positions
\* past the end count 0), the counter ends at the sum over the whole list,
\* and no payout position is paid to two entries (every entry of a
\* successful call consumes at least one position).
StartPosition(winners, i) ==
    SeqSum([j \in 1 .. i - 1 |-> winners[j].positions_consumed])

EntryTransfers(winner, first, pool, payouts) ==
    IF winner.kind = "Individual"
    THEN IF first < Len(payouts)
         THEN <<[to |-> winner.players[1],
                 amount |-> (pool * payouts[first + 1]) \div 10000]>>
         ELSE <<>>
    ELSE GroupShares(winner.players,
             CombinedAmount(pool, payouts, first, winner.positions_consumed))

RECURSIVE ExpectedTransfers(_, _, _, _)
ExpectedTransfers(winners, i, pool, payouts) ==
    IF i > Len(winners) THEN <<>>
    ELSE EntryTransfers(winners[i], StartPosition(winners, i), pool, payouts)
           \o ExpectedTransfers(winners, i + 1, pool, payouts)

PaidByPosition(r, winners, pool, payouts) ==
    r.err = "Ok" =>
        /\ r.transfers = ExpectedTransfers(winners, 1, pool, payouts)
        /\ r.position_counter = StartPosition(winners, Len(winners) + 1)
        /\ \A i \in DOMAIN winners : winners[i].positions_consumed >= 1
        /\ \A i, j \in DOMAIN winners :
              i < j => StartPosition(winners, i)
                          + winners[i].positions_consumed
                            <= StartPosition(winners, j)

C21_PositionCounter ==
    initialized =>
        LET s == tournament_state
            a == tournament_state.authority
        IN  /\ s.phase = "Playing" =>
                \A w \in WinnerLists, ra \in RemainingAccountsChoices :
                    PaidByPosition(
                        finalize_tournament(s, a, w, ra, escrow_lamports),
                        w, TournamentPool(s), s.tournament_payouts)
            /\ s.phase = "Finalized" =>
                \A w \in WinnerLists, ra \in RemainingAccountsChoices,
                   id \in MatchIds :
                    PaidByPosition(
                        distribute_match_rewards(s, a, id, w, ra,
                                                 escrow_lamports),
                        w, MatchPoolOf(s), s.match_payout_percentages)

\* C21 witness: finalize_tournament paid an Individual from position 0 and
\* then a Group of two from positions 1 and 2.
C21_Witness ==
    /\ last.op = "finalize_tournament"
    /\ last.err = "Ok"
    /\ last.position_counter = 3
    /\ Len(tournament_state.tournament_payouts) = 3
    /\ Len(last.transfers) = 3
    /\ last.transfers[2].to # last.transfers[3].to
    /\ last.transfers[2].amount > last.transfers[1].amount

\* C22: a Group entry that the winner loop reaches fails the whole
\* finalize_tournament or distribute_match_rewards call: InvalidWinnerCount
\* if its player list is empty or it consumes 0 positions, NoMatchRewards if
\* its even share floor(C/n) is 0 (the combined amount C is smaller than the
\* number of players n, as when all its positions lie beyond the payout
\* sequence); it is not skipped.  An entry is reached when the checks before
\* the loop pass and the entries before it are paid.
\* As claimed. distribute_match_rewards does not keep it: a winner list
\* that does not decode as the Vec<Pubkey> its accounts declare is
\* rejected with InstructionDidNotDeserialize before the constraints and
\* the handler (InstructionArgsDecode).
FinalizeChecksPass(s) ==
    /\ s.phase = "Playing"
    /\ calculate_total_buy_ins(s.current_players, s.buy_in_amount).err = "Ok"
    /\ calculate_percentage_amount(
           calculate_total_buy_ins(s.current_players, s.buy_in_amount).value,
           s.tournament_prize_percentage).err = "Ok"

DistributeChecksPass(s, id) ==
    LET total == calculate_total_buy_ins(s.current_players, s.buy_in_amount)
        pool == calculate_percentage_amount(total.value,
                                            s.match_prize_percentage)
    IN  /\ s.phase = "Finalized"
        /\ ~match_already_paid(s, id)
        /\ total.err = "Ok"
        /\ pool.err = "Ok"
        /\ MatchPoolOf(s) > 0

AllParticipants(s, winners) ==
    \A i \in DOMAIN winners :
        \A j \in DOMAIN winners[i].players :
            /\ winners[i].players[j] # DefaultKey
            /\ is_participant(s, winners[i].players[j])

Front(winners) == SubSeq(winners, 1, Len(winners) - 1)

\* The error the last entry of winners, a Group, must produce.
GroupEntryError(r, winners, pool, payouts) ==
    LET g == winners[Len(winners)]
        n == Len(g.players)
        combined == CombinedAmount(pool, payouts,
                        StartPosition(winners, Len(winners)),
                        g.positions_consumed)
    IN  /\ (n = 0 \/ g.positions_consumed = 0) =>
              r.err = "InvalidWinnerCount"
        /\ (n > 0 /\ g.positions_consumed > 0 /\ combined \div n = 0) =>
              r.err = "NoMatchRewards"
        /\ (n > 0 /\ g.positions_consumed > 0 /\ combined < n) =>
              r.err = "NoMatchRewards"

C22_GroupEntryErrors ==
    initialized =>
        LET s == tournament_state
            a == tournament_state.authority
        IN  /\ FinalizeChecksPass(s) =>
                \A w \in GroupLists, ra \in RemainingAccountsChoices :
                    (/\ AllParticipants(s, w)
                     /\ Len(w) > 1 =>
                           finalize_tournament(s, a, Front(w), ra,
                               escrow_lamports).err = "Ok") =>
                        GroupEntryError(
                            finalize_tournament(s, a, w, ra, escrow_lamports),
                            w, TournamentPool(s), s.tournament_payouts)
            /\ \A id \in MatchIds :
                DistributeChecksPass(s, id) =>
                  \A w \in GroupLists, ra \in RemainingAccountsChoices :
                    (/\ AllParticipants(s, w)
                     /\ Len(w) > 1 =>
                           distribute_match_rewards(s, a, id, Front(w), ra,
                               escrow_lamports).err = "Ok") =>
                        GroupEntryError(
                            distribute_match_rewards(s, a, id, w, ra,
                                                     escrow_lamports),
                            w, MatchPoolOf(s), s.match_payout_percentages)

\* C23: in distribute_match_rewards the per-match pool is floor(T / N) with
\* T = floor(entry fee x current_players x match bps / 10000) and
\* N = ceil(current_players / match_size); the call fails NoMatchRewards
\* when the pool is 0 (always when the match bps are 0); an Individual
\* winner at position i receives floor(pool x match_payout_percentages[i] /
\* 10000), and the call fails NoMatchRewards if that amount is 0.
\* The handler is applied to every reachable Finalized account and to the
\* same account with a small entry fee and with match bps 0 (configurations
\* initialize_tournament accepts), with a vault that holds every entry fee.
CeilDiv(a, b) == CHOOSE n \in 0 .. a : n * b >= a /\ (n - 1) * b < a

PerMatchPool(s) ==
    ((s.buy_in_amount * s.current_players * s.match_prize_percentage)
        \div 10000) \div CeilDiv(s.current_players, s.match_size)

MatchProbeStates(s) ==
    {[s EXCEPT !.buy_in_amount = f, !.match_prize_percentage = m,
               !.tournament_prize_percentage =
                   10000 - m - s.operator_fee_percentage] :
        f \in {s.buy_in_amount, 4, 7}, m \in {s.match_prize_percentage, 0}}

IndividualAmounts(s, w) ==
    [i \in 1 .. (IF Len(w) < Len(s.match_payout_percentages)
                 THEN Len(w) ELSE Len(s.match_payout_percentages)) |->
        (PerMatchPool(s) * s.match_payout_percentages[i]) \div 10000]

MatchPoolPaid(q, id, w) ==
    LET r == distribute_match_rewards(q, q.authority, id, w, Keys,
                 q.buy_in_amount * q.current_players)
        amounts == IndividualAmounts(q, w)
    IN  /\ q.match_prize_percentage = 0 => PerMatchPool(q) = 0
        /\ PerMatchPool(q) = 0 => r.err = "NoMatchRewards"
        /\ (/\ PerMatchPool(q) > 0
            /\ \E i \in DOMAIN amounts : amounts[i] = 0) =>
              r.err = "NoMatchRewards"
        /\ (/\ PerMatchPool(q) > 0
            /\ \A i \in DOMAIN amounts : amounts[i] > 0) =>
              /\ r.err = "Ok"
              /\ AmountsOf(r.transfers) = amounts
              /\ \A i \in DOMAIN amounts :
                    r.transfers[i].to = w[i].players[1]

C23_PerMatchPool ==
    (/\ initialized
     /\ tournament_state.phase = "Finalized"
     /\ tournament_state.match_prize_percentage <= 10000) =>
        \A q \in MatchProbeStates(tournament_state), id \in MatchIds,
           w \in IndividualLists :
            (~match_already_paid(q, id) /\ AllParticipants(q, w)) =>
                MatchPoolPaid(q, id, w)

\* C23 witness: with 3 players in matches of 2 (two matches) a match was
\* paid 225 and 150 out of a per-match pool of 375.
C23_Witness ==
    /\ last.op = "distribute_match_rewards"
    /\ last.err = "Ok"
    /\ tournament_state.current_players = 3
    /\ tournament_state.match_size = 2
    /\ PerMatchPool(tournament_state) = 375
    /\ AmountsOf(last.transfers) = <<225, 150>>

\* C24: in every reachable state whose phase is Playing or Finalized at
\* least one player is registered; so the number of matches that
\* distribute_match_rewards computes is at least 1 and no call, with
\* whatever input, fails InvalidMatchCount.
C24_AtLeastOnePlayer ==
    /\ last.err # "InvalidMatchCount"
    /\ (initialized
        /\ tournament_state.phase \in {"Playing", "Finalized"}) =>
          /\ tournament_state.current_players >= 1
          /\ tournament_state.match_size >= 2
          /\ (tournament_state.current_players
                + tournament_state.match_size - 1)
               \div tournament_state.match_size >= 1
    /\ (initialized /\ tournament_state.phase = "Finalized") =>
          \A id \in MatchIds, w \in WinnerLists,
             ra \in RemainingAccountsChoices :
              distribute_match_rewards(tournament_state,
                  tournament_state.authority, id, w, ra,
                  escrow_lamports).err # "InvalidMatchCount"

\* C24 witness: a tournament with a single player was finalized and a match
\* of it was paid.
C24_Witness ==
    /\ tournament_state.phase = "Finalized"
    /\ tournament_state.current_players = 1
    /\ last.op = "distribute_match_rewards"
    /\ last.err = "Ok"
    /\ paid.matches > 0

\* C25: both payout sequences are empty in every Registration and Cancelled
\* state; in every Playing and Finalized state tournament_payouts sums to
\* exactly 10000 with 1 <= length <= min(20, current_players) and
\* match_payout_percentages sums to exactly 10000 with 1 <= length <= 8; and
\* once the phase is Playing or Finalized no step changes either sequence.
PayoutSequencesWellFormed(s) ==
    /\ s.phase \in {"Registration", "Cancelled"} =>
          /\ s.tournament_payouts = <<>>
          /\ s.match_payout_percentages = <<>>
    /\ s.phase \in {"Playing", "Finalized"} =>
          /\ SeqSum(s.tournament_payouts) = 10000
          /\ 1 <= Len(s.tournament_payouts)
          /\ Len(s.tournament_payouts) <= 20
          /\ Len(s.tournament_payouts) <= s.current_players
          /\ SeqSum(s.match_payout_percentages) = 10000
          /\ 1 <= Len(s.match_payout_percentages)
          /\ Len(s.match_payout_percentages) <= 8

C25_PayoutSequences ==
    [][/\ PayoutSequencesWellFormed(tournament_state')
       /\ tournament_state.phase \in {"Playing", "Finalized"} =>
            /\ tournament_state'.tournament_payouts
                   = tournament_state.tournament_payouts
            /\ tournament_state'.match_payout_percentages
                   = tournament_state.match_payout_percentages
       /\ (/\ tournament_state'.tournament_payouts
                  # tournament_state.tournament_payouts
           \/ tournament_state'.match_payout_percentages
                  # tournament_state.match_payout_percentages) =>
            (initialized /\ Called("start_tournament") /\ Succeeded)]_vars

\* C25 witness: the operator fee was withdrawn from a tournament that still
\* has the two sequences its start stored.
C25_Witness ==
    /\ tournament_state.phase = "Finalized"
    /\ tournament_state.tournament_payouts = <<3333, 3333, 3334>>
    /\ tournament_state.match_payout_percentages = <<6000, 4000>>
    /\ last.op = "withdraw_operator_fee"
    /\ last.err = "Ok"

\* C26: after create the entry fee, max_players, match_size and the three
\* percentages never change; participants grows only by an append at its
\* end, by a successful buy_in in Registration, so participants and
\* current_players change in no step once the phase has left Registration;
\* a successful distribute_match_rewards changes only paid_match_ids, a
\* successful withdraw_operator_fee only the latch, a successful
\* refund_participant only refunded_participants, a successful
\* cancel_tournament or finalize_tournament only the phase.
ConfigOf(s) ==
    <<s.buy_in_amount, s.max_players, s.match_size,
      s.tournament_prize_percentage, s.match_prize_percentage,
      s.operator_fee_percentage>>

C26_Frame ==
    [][initialized =>
        /\ ConfigOf(tournament_state') = ConfigOf(tournament_state)
        /\ tournament_state'.participants # tournament_state.participants =>
              /\ Called("buy_in") /\ Succeeded
              /\ tournament_state.phase = "Registration"
              /\ tournament_state'.participants =
                     Append(tournament_state.participants, last'.key)
              /\ tournament_state'.current_players =
                     tournament_state.current_players + 1
        /\ tournament_state.phase # "Registration" =>
              /\ tournament_state'.participants
                     = tournament_state.participants
              /\ tournament_state'.current_players
                     = tournament_state.current_players
        /\ (Called("distribute_match_rewards") /\ Succeeded) =>
              tournament_state' =
                  [tournament_state EXCEPT !.paid_match_ids =
                      tournament_state'.paid_match_ids]
        /\ (Called("withdraw_operator_fee") /\ Succeeded) =>
              tournament_state' =
                  [tournament_state EXCEPT !.operator_fee_withdrawn =
                      tournament_state'.operator_fee_withdrawn]
        /\ (Called("refund_participant") /\ Succeeded) =>
              tournament_state' =
                  [tournament_state EXCEPT !.refunded_participants =
                      tournament_state'.refunded_participants]
        /\ ((Called("cancel_tournament") \/ Called("finalize_tournament"))
            /\ Succeeded) =>
              tournament_state' =
                  [tournament_state EXCEPT !.phase =
                      tournament_state'.phase]]_vars

\* C26 witness: one of three participants of a cancelled tournament was
\* refunded; the list of participants is as it was.
C26_Witness ==
    /\ last.op = "refund_participant"
    /\ last.err = "Ok"
    /\ Len(tournament_state.participants) = 3
    /\ tournament_state.current_players = 3
    /\ Len(tournament_state.refunded_participants) = 1

\* C27 (as claimed): in phase Registration, with the tournament not full and
\* the player not registered, a buy_in by any player succeeds whether or not
\* the tournament's authority takes part in the call (whoever is passed as
\* the authority account); it moves exactly the entry fee from the player
\* into the vault and appends the player.
C27_BuyInNotAuthorityGated ==
    (/\ initialized
     /\ tournament_state.phase = "Registration"
     /\ tournament_state.current_players < tournament_state.max_players) =>
        \A player \in Signers, authority \in Callers :
            ~is_participant(tournament_state, player) =>
                LET r == buy_in(tournament_state, player, authority, TRUE,
                                escrow_lamports)
                IN  /\ r.err = "Ok"
                    /\ r.deposit = tournament_state.buy_in_amount
                    /\ r.state =
                           [tournament_state EXCEPT
                               !.participants = Append(@, player),
                               !.current_players = @ + 1]

\* C27 (amended): buy_in is gated by the tournament's authority.  In phase
\* Registration, with the tournament not full and the player not registered,
\* a funded buy_in succeeds when the authority account of the call is the
\* tournament's authority: it moves exactly the entry fee from the player
\* into the vault and appends the player.  With any other authority account
\* it fails UnauthorizedAuthority, moves nothing and registers nobody.
C27_BuyInAuthorityGated ==
    (/\ initialized
     /\ tournament_state.phase = "Registration"
     /\ tournament_state.current_players < tournament_state.max_players) =>
        \A player \in Signers, authority \in Callers :
            ~is_participant(tournament_state, player) =>
                LET r == buy_in(tournament_state, player, authority, TRUE,
                                escrow_lamports)
                IN  IF authority = tournament_state.authority
                    THEN /\ r.err = "Ok"
                         /\ r.deposit = tournament_state.buy_in_amount
                         /\ r.state =
                                [tournament_state EXCEPT
                                    !.participants = Append(@, player),
                                    !.current_players = @ + 1]
                    ELSE /\ r.err = "UnauthorizedAuthority"
                         /\ r.deposit = 0
                         /\ r.state = tournament_state

\* C27 witness: an unregistered player's buy_in into a tournament that has
\* room and already holds one entry fee was rejected because the authority
\* account was not the tournament's authority.
C27_Witness ==
    /\ initialized
    /\ tournament_state.phase = "Registration"
    /\ tournament_state.current_players >= 1
    /\ tournament_state.current_players < tournament_state.max_players
    /\ last.op = "buy_in"
    /\ last.err = "UnauthorizedAuthority"
    /\ last.authority # tournament_state.authority
    /\ ~is_participant(tournament_state, last.key)
    /\ escrow_lamports =
           tournament_state.current_players * tournament_state.buy_in_amount

\* C28: finalize_tournament and distribute_match_rewards fail
\* InvalidWinnerCount on an empty winner list and WinnerNotParticipant when
\* a player named in any Individual or Group entry is not a participant
\* (distribute_match_rewards fails InvalidWinner when the first player that
\* does not qualify is the default identity); these failures come before the
\* first transfer, and no successful call transfers to an identity that is
\* not a participant.
\* As claimed. distribute_match_rewards does not keep it: a winner list
\* that does not decode as the Vec<Pubkey> its accounts declare is
\* rejected with InstructionDidNotDeserialize before the constraints and
\* the handler (InstructionArgsDecode).
NamedPlayers(winners) ==
    UNION {Range(winners[i].players) : i \in DOMAIN winners}

WinnersValidated(r, s, winners, reject_default) ==
    LET named == NamedPlayers(winners)
        strangers == {p \in named : ~is_participant(s, p)}
    IN  /\ winners = <<>> =>
              r.err = "InvalidWinnerCount" /\ r.transfers = <<>>
        /\ strangers # {} =>
              /\ r.transfers = <<>>
              /\ r.state = s
              /\ IF reject_default /\ DefaultKey \in named
                 THEN /\ r.err \in {"InvalidWinner", "WinnerNotParticipant"}
                      /\ strangers = {DefaultKey} => r.err = "InvalidWinner"
                 ELSE r.err = "WinnerNotParticipant"
        /\ r.err = "Ok" =>
              /\ winners # <<>>
              /\ strangers = {}
              /\ \A i \in DOMAIN r.transfers :
                    is_participant(s, r.transfers[i].to)

C28_WinnersValidated ==
    initialized =>
        LET s == tournament_state
            a == tournament_state.authority
        IN  /\ s.phase = "Playing" =>
                \A w \in WinnerLists, ra \in RemainingAccountsChoices :
                    WinnersValidated(
                        finalize_tournament(s, a, w, ra, escrow_lamports),
                        s, w, FALSE)
            /\ s.phase = "Finalized" =>
                \A id \in MatchIds, w \in WinnerLists,
                   ra \in RemainingAccountsChoices :
                    ~match_already_paid(s, id) =>
                        WinnersValidated(
                            distribute_match_rewards(s, a, id, w, ra,
                                                     escrow_lamports),
                            s, w, TRUE)

\* C29 (as claimed): in every reachable Finalized state in which the
\* operator fee has not been withdrawn, the vault holds at least the
\* operator fee floor(entry fee x current_players x operator bps / 10000).
C29_OperatorFeeCovered ==
    (/\ initialized
     /\ tournament_state.phase = "Finalized"
     /\ ~tournament_state.operator_fee_withdrawn) =>
        escrow_lamports >= OperatorFee(tournament_state)

\* C30 (as claimed): no identity receives more than one transfer of a
\* successful finalize_tournament or distribute_match_rewards call.
C30_NoWinnerPaidTwice ==
    (/\ last.op \in {"finalize_tournament", "distribute_match_rewards"}
     /\ last.err = "Ok") =>
        \A i, j \in DOMAIN last.transfers :
            last.transfers[i].to = last.transfers[j].to => i = j

\* ------------------------------------------------------------------------
\* Tournaments whose entry fee is at the top of the u64 range
\* ------------------------------------------------------------------------
\* Amounts beyond the model checker's integers are written as their bytes,
\* least significant first and without leading zero bytes (<<>> is 0).  The
\* wide_ operators are the same code as the operators they are named after,
\* computed on such amounts; identities, counts and percentages stay
\* integers.
RECURSIVE Trim(_)
Trim(x) ==
    IF x = <<>> \/ x[Len(x)] # 0 THEN x ELSE Trim(SubSeq(x, 1, Len(x) - 1))

RECURSIVE BytesOf(_)
BytesOf(n) == IF n = 0 THEN <<>> ELSE <<n % Radix>> \o BytesOf(n \div Radix)

ByteAt(x, i) == IF i <= Len(x) THEN x[i] ELSE 0

RECURSIVE WideLeqFrom(_, _, _)
WideLeqFrom(a, b, i) ==
    IF i = 0 THEN TRUE
    ELSE IF a[i] # b[i] THEN a[i] < b[i]
    ELSE WideLeqFrom(a, b, i - 1)

\* a <= b
WideLeq(a, b) ==
    IF Len(a) # Len(b) THEN Len(a) < Len(b) ELSE WideLeqFrom(a, b, Len(a))

RECURSIVE WideAddFrom(_, _, _, _)
WideAddFrom(a, b, i, carry) ==
    IF i > Len(a) /\ i > Len(b) THEN BytesOf(carry)
    ELSE LET sum == ByteAt(a, i) + ByteAt(b, i) + carry
         IN  <<sum % Radix>> \o WideAddFrom(a, b, i + 1, sum \div Radix)

\* a + b
WideAdd(a, b) == WideAddFrom(a, b, 1, 0)

RECURSIVE WideSubFrom(_, _, _, _)
WideSubFrom(a, b, i, borrow) ==
    IF i > Len(a) THEN <<>>
    ELSE LET d == a[i] - ByteAt(b, i) - borrow
         IN  IF d < 0
             THEN <<d + Radix>> \o WideSubFrom(a, b, i + 1, 1)
             ELSE <<d>> \o WideSubFrom(a, b, i + 1, 0)

\* a - b, for b <= a
WideSub(a, b) == Trim(WideSubFrom(a, b, 1, 0))

RECURSIVE WideMulFrom(_, _, _, _)
WideMulFrom(a, m, i, carry) ==
    IF i > Len(a) THEN BytesOf(carry)
    ELSE LET p == a[i] * m + carry
         IN  <<p % Radix>> \o WideMulFrom(a, m, i + 1, p \div Radix)

\* a * m, for an integer m of at most 16 bits
WideMul(a, m) == Trim(WideMulFrom(a, m, 1, 0))

RECURSIVE WideDivFrom(_, _, _, _)
WideDivFrom(a, d, i, rem) ==
    IF i = 0 THEN <<>>
    ELSE LET cur == rem * Radix + a[i]
         IN  WideDivFrom(a, d, i - 1, cur % d) \o <<cur \div d>>

\* floor(a / d), for an integer d > 0 of at most 16 bits
WideDiv(a, d) == Trim(WideDivFrom(a, d, Len(a), 0))

RECURSIVE WideSum(_)
WideSum(s) == IF s = <<>> THEN <<>> ELSE WideAdd(Head(s), WideSum(Tail(s)))

\* `x as u64`: the lowest 64 bits of x.
WideAsU64(x) ==
    Trim(SubSeq(x, 1, IF Len(x) < U64Bytes THEN Len(x) ELSE U64Bytes))

\* x does not fit a lamport word.
WideExceedsU64(x) == Len(x) > U64Bytes

WideOk(s, transfers) ==
    [err |-> "Ok", state |-> s, transfers |-> transfers, deposit |-> <<>>,
     position_counter |-> 0, total_distributed |-> <<>>]

WideErr(s, e, transfers) ==
    [err |-> e, state |-> s, transfers |-> transfers, deposit |-> <<>>,
     position_counter |-> 0, total_distributed |-> <<>>]

\* total / buy_in_amount == current_players, with the u128 quotient written
\* as the two products that bracket total.
wide_calculate_total_buy_ins(current_players, buy_in_amount) ==
    LET total == WideMul(buy_in_amount, current_players)
    IN  IF buy_in_amount = <<>> THEN [err |-> "Panic", value |-> <<>>]
        ELSE IF /\ WideLeq(WideMul(buy_in_amount, current_players), total)
                /\ ~WideLeq(WideMul(buy_in_amount, current_players + 1),
                            total)
        THEN [err |-> "Ok", value |-> total]
        ELSE [err |-> "CalculationOverflow", value |-> <<>>]

\* Mutation: the percentage amount is returned without the
\* require!(amount <= total).
wide_calculate_percentage_amount_unguarded(total, percentage) ==
    [err |-> "Ok", value |-> WideDiv(WideMul(total, percentage), BasisPoints)]

wide_calculate_percentage_amount(total, percentage) ==
    LET amount == WideDiv(WideMul(total, percentage), BasisPoints)
    IN  IF WideLeq(amount, total)
        THEN [err |-> "Ok", value |-> amount]
        ELSE [err |-> "CalculationOverflow", value |-> <<>>]

WideNewAcc(balance) ==
    [err |-> "Ok", position_counter |-> 0, total_distributed |-> <<>>,
     remaining_amount |-> <<>>, transfers |-> <<>>, balance |-> balance]

wide_transfer_from_escrow(acc, destination, amount) ==
    IF ~WideLeq(amount, acc.balance)
    THEN [acc EXCEPT !.err = "InsufficientFunds"]
    ELSE [acc EXCEPT !.balance = WideSub(@, amount),
                     !.transfers =
                         Append(@, [to |-> destination, amount |-> amount])]

WidePayWinnerAccount(acc, player, amount, remaining_accounts) ==
    IF player \in remaining_accounts
    THEN wide_transfer_from_escrow(acc, player, WideAsU64(amount))
    ELSE [acc EXCEPT !.err = "MissingWinnerAccount"]

RECURSIVE WideGroupLoop(_, _, _, _, _)
WideGroupLoop(acc, players, player_index, payout_per_player, remaining_accounts) ==
    IF acc.err # "Ok" \/ player_index > Len(players) THEN acc
    ELSE
      LET amount_to_transfer ==
              IF player_index = Len(players) THEN acc.remaining_amount
              ELSE payout_per_player
          paid_acc == WidePayWinnerAccount(acc, players[player_index],
                          amount_to_transfer, remaining_accounts)
      IN  IF ~(amount_to_transfer # <<>>)
              THEN [acc EXCEPT !.err = "NoMatchRewards"]
          ELSE IF paid_acc.err # "Ok" THEN paid_acc
          ELSE WideGroupLoop(
                 [paid_acc EXCEPT
                     !.remaining_amount = WideSub(@, amount_to_transfer),
                     !.total_distributed = WideAdd(@, amount_to_transfer)],
                 players, player_index + 1, payout_per_player,
                 remaining_accounts)

WideProcessWinner(acc, winner, pool, payouts, remaining_accounts, require_positive) ==
    IF winner.kind = "Individual" THEN
        IF acc.position_counter < Len(payouts) THEN
            LET amount == wide_calculate_percentage_amount(
                              pool, payouts[acc.position_counter + 1])
                paid_acc == WidePayWinnerAccount(acc, winner.players[1],
                                amount.value, remaining_accounts)
            IN  IF amount.err # "Ok" THEN [acc EXCEPT !.err = amount.err]
                ELSE IF require_positive /\ ~(amount.value # <<>>)
                    THEN [acc EXCEPT !.err = "NoMatchRewards"]
                ELSE IF paid_acc.err # "Ok" THEN paid_acc
                ELSE [paid_acc EXCEPT
                         !.total_distributed = WideAdd(@, amount.value),
                         !.position_counter = @ + 1]
        ELSE [acc EXCEPT !.position_counter = @ + 1]
    ELSE
        LET players == winner.players
            positions_consumed == winner.positions_consumed
            combined_pool_percentage ==
                CombinedPoolPercentage(payouts, acc.position_counter,
                    acc.position_counter + positions_consumed)
            combined_pool_amount ==
                wide_calculate_percentage_amount(
                    pool, AsU16(combined_pool_percentage))
            payout_per_player == WideDiv(combined_pool_amount.value,
                                         Len(players))
            looped == WideGroupLoop(
                [acc EXCEPT !.remaining_amount = combined_pool_amount.value],
                players, 1, payout_per_player, remaining_accounts)
        IN  IF ~(players # <<>>)
                THEN [acc EXCEPT !.err = "InvalidWinnerCount"]
            ELSE IF ~(positions_consumed > 0)
                THEN [acc EXCEPT !.err = "InvalidWinnerCount"]
            ELSE IF combined_pool_amount.err # "Ok"
                THEN [acc EXCEPT !.err = combined_pool_amount.err]
            ELSE IF ~WideLeq(WideMul(payout_per_player, Len(players)),
                             combined_pool_amount.value)
                THEN [acc EXCEPT !.err = "CalculationOverflow"]
            ELSE IF looped.err # "Ok" THEN looped
            ELSE [looped EXCEPT !.position_counter = @ + positions_consumed]

RECURSIVE WideWinnerLoop(_, _, _, _, _, _, _)
WideWinnerLoop(acc, winners, winner_index, pool, payouts, remaining_accounts, require_positive) ==
    IF acc.err # "Ok" \/ winner_index > Len(winners) THEN acc
    ELSE WideWinnerLoop(
            WideProcessWinner(acc, winners[winner_index], pool, payouts,
                              remaining_accounts, require_positive),
            winners, winner_index + 1, pool, payouts, remaining_accounts,
            require_positive)

wide_initialize_tournament(s, payer, buy_in_amount, max_players, match_size, tournament_prize_percentage, match_prize_percentage, operator_fee_percentage, overflow_checks) ==
    LET r == initialize_tournament(s, payer,
                 IF buy_in_amount = <<>> THEN 0 ELSE 1, max_players,
                 match_size, tournament_prize_percentage,
                 match_prize_percentage, operator_fee_percentage,
                 overflow_checks)
    IN  IF r.err # "Ok" THEN WideErr(s, r.err, <<>>)
        ELSE WideOk([r.state EXCEPT !.buy_in_amount = buy_in_amount], <<>>)

wide_buy_in(s, player, authority, funded, balance) ==
    IF ~AuthorityConstraint(s, authority)
        THEN WideErr(s, "UnauthorizedAuthority", <<>>)
    ELSE IF ~(s.phase = "Registration") THEN WideErr(s, "InvalidPhase", <<>>)
    ELSE IF ~(s.current_players < s.max_players)
        THEN WideErr(s, "TournamentFull", <<>>)
    ELSE IF ~(s.current_players < U8Max)
        THEN WideErr(s, "PlayerCountOverflow", <<>>)
    ELSE IF already_registered(s, player)
        THEN WideErr(s, "AlreadyRegistered", <<>>)
    \* system_program::transfer(player -> escrow, buy_in_amount)?
    ELSE IF ~funded \/ WideExceedsU64(WideAdd(balance, s.buy_in_amount))
        THEN WideErr(s, "TransferFailed", <<>>)
    ELSE [WideOk([s EXCEPT !.participants = Append(@, player),
                           !.current_players = @ + 1], <<>>)
            EXCEPT !.deposit = s.buy_in_amount]

wide_start_tournament(s, authority, payout_percentages, match_payout_percentages) ==
    LET r == start_tournament(s, authority, payout_percentages,
                              match_payout_percentages)
    IN  IF r.err # "Ok" THEN WideErr(s, r.err, <<>>)
        ELSE WideOk(r.state, <<>>)

wide_finalize_tournament(s, authority, winners, remaining_accounts, balance) ==
    LET valid == ValidateWinners(s, winners, 1, FALSE)
        total_buy_ins ==
            wide_calculate_total_buy_ins(s.current_players, s.buy_in_amount)
        tournament_pool ==
            wide_calculate_percentage_amount(total_buy_ins.value,
                                             s.tournament_prize_percentage)
        acc == WideWinnerLoop(WideNewAcc(balance), winners, 1,
                              tournament_pool.value, s.tournament_payouts,
                              remaining_accounts, FALSE)
    IN
    IF ~AuthorityConstraint(s, authority)
        THEN WideErr(s, "UnauthorizedAuthority", <<>>)
    ELSE IF ~(s.phase = "Playing") THEN WideErr(s, "InvalidPhase", <<>>)
    ELSE IF ~(winners # <<>>) THEN WideErr(s, "InvalidWinnerCount", <<>>)
    ELSE IF valid # "Ok" THEN WideErr(s, valid, <<>>)
    ELSE IF total_buy_ins.err # "Ok"
        THEN WideErr(s, total_buy_ins.err, <<>>)
    ELSE IF tournament_pool.err # "Ok"
        THEN WideErr(s, tournament_pool.err, <<>>)
    ELSE IF acc.err # "Ok"
        THEN WithLocals(WideErr(s, acc.err, acc.transfers), acc)
    ELSE IF ~WideLeq(acc.total_distributed, tournament_pool.value)
        THEN WithLocals(WideErr(s, "CalculationOverflow", acc.transfers), acc)
    ELSE WithLocals(WideOk([s EXCEPT !.phase = "Finalized"], acc.transfers),
                    acc)

wide_distribute_match_rewards(s, authority, match_id_hash, winners, remaining_accounts, balance) ==
    LET valid == ValidateWinners(s, winners, 1, TRUE)
        total_buy_ins ==
            wide_calculate_total_buy_ins(s.current_players, s.buy_in_amount)
        total_match_pool ==
            wide_calculate_percentage_amount(total_buy_ins.value,
                                             s.match_prize_percentage)
        num_matches ==
            (s.current_players + s.match_size - 1) \div s.match_size
        match_pool == WideDiv(total_match_pool.value, num_matches)
        acc == WideWinnerLoop(WideNewAcc(balance), winners, 1, match_pool,
                              s.match_payout_percentages, remaining_accounts,
                              TRUE)
    IN
    IF ~InstructionArgsDecode(winners)
        THEN WideErr(s, "InstructionDidNotDeserialize", <<>>)
    ELSE IF ~AuthorityConstraint(s, authority)
        THEN WideErr(s, "UnauthorizedAuthority", <<>>)
    ELSE IF ~(s.phase = "Finalized")
        THEN WideErr(s, "TournamentNotFinalized", <<>>)
    ELSE IF match_already_paid(s, match_id_hash)
        THEN WideErr(s, "MatchAlreadyPaid", <<>>)
    ELSE IF ~(winners # <<>>) THEN WideErr(s, "InvalidWinnerCount", <<>>)
    ELSE IF valid # "Ok" THEN WideErr(s, valid, <<>>)
    ELSE IF total_buy_ins.err # "Ok"
        THEN WideErr(s, total_buy_ins.err, <<>>)
    ELSE IF total_match_pool.err # "Ok"
        THEN WideErr(s, total_match_pool.err, <<>>)
    ELSE IF ~(num_matches > 0) THEN WideErr(s, "InvalidMatchCount", <<>>)
    ELSE IF ~(match_pool # <<>>) THEN WideErr(s, "NoMatchRewards", <<>>)
    ELSE IF ~WideLeq(WideMul(match_pool, num_matches), total_match_pool.value)
        THEN WideErr(s, "CalculationOverflow", <<>>)
    ELSE IF acc.err # "Ok"
        THEN WithLocals(WideErr(s, acc.err, acc.transfers), acc)
    ELSE IF ~WideLeq(acc.total_distributed, match_pool)
        THEN WithLocals(WideErr(s, "CalculationOverflow", acc.transfers), acc)
    ELSE WithLocals(
            WideOk([s EXCEPT !.paid_match_ids = Append(@, match_id_hash)],
                   acc.transfers), acc)

wide_withdraw_operator_fee(s, authority, fee_recipient, balance) ==
    LET total_buy_ins ==
            wide_calculate_total_buy_ins(s.current_players, s.buy_in_amount)
        operator_fee ==
            wide_calculate_percentage_amount(total_buy_ins.value,
                                             s.operator_fee_percentage)
        acc == wide_transfer_from_escrow(WideNewAcc(balance), fee_recipient,
                                         WideAsU64(operator_fee.value))
    IN
    IF ~AuthorityConstraint(s, authority)
        THEN WideErr(s, "UnauthorizedAuthority", <<>>)
    ELSE IF ~(s.phase = "Finalized")
        THEN WideErr(s, "TournamentNotFinalized", <<>>)
    ELSE IF ~(~fee_already_withdrawn(s))
        THEN WideErr(s, "OperatorFeeAlreadyWithdrawn", <<>>)
    ELSE IF total_buy_ins.err # "Ok"
        THEN WideErr(s, total_buy_ins.err, <<>>)
    ELSE IF operator_fee.err # "Ok" THEN WideErr(s, operator_fee.err, <<>>)
    ELSE IF acc.err # "Ok" THEN WideErr(s, acc.err, acc.transfers)
    ELSE WideOk([s EXCEPT !.operator_fee_withdrawn = TRUE], acc.transfers)

wide_cancel_tournament(s, authority) ==
    LET r == cancel_tournament(s, authority)
    IN  IF r.err # "Ok" THEN WideErr(s, r.err, <<>>)
        ELSE WideOk(r.state, <<>>)

wide_refund_participant(s, authority, participant, balance) ==
    LET acc == wide_transfer_from_escrow(WideNewAcc(balance), participant,
                                         s.buy_in_amount)
    IN
    IF ~AuthorityConstraint(s, authority)
        THEN WideErr(s, "UnauthorizedAuthority", <<>>)
    ELSE IF ~(s.phase = "Cancelled")
        THEN WideErr(s, "TournamentNotCancelled", <<>>)
    ELSE IF ~Contains(s.participants, participant)
        THEN WideErr(s, "ParticipantNotFound", <<>>)
    ELSE IF already_refunded(s, participant)
        THEN WideErr(s, "ParticipantAlreadyRefunded", <<>>)
    ELSE IF acc.err # "Ok" THEN WideErr(s, acc.err, acc.transfers)
    ELSE WideOk([s EXCEPT !.refunded_participants = Append(@, participant)],
                acc.transfers)

\* Entry fees: a third of the largest lamport word (three buy-ins fill the
\* vault exactly), half the range (the second buy-in passes it by one) and
\* the largest lamport word.
WideFeeValues ==
    {[i \in 1 .. U64Bytes |-> 85],
     [i \in 1 .. U64Bytes |-> IF i = U64Bytes THEN 128 ELSE 0],
     [i \in 1 .. U64Bytes |-> 255]}

\* Configurations: 6000/2500/1500, and 60000/14036/1500, whose u16 sum
\* wraps to 10000; max_players = 3 and match_size = 2, or both 1.
WideTournamentPrizeValues == {6000, 60000}

WideMatchPrizeValues == {2500, 14036}

WideOperatorFeeValues == {1500}

WideMaxPlayersValues == {1, 3}

WideMatchSizeValues == {2}

WideTournamentPayoutChoices == {<<>>, <<10000>>, <<3333, 6667>>}

WideMatchPayoutChoices == {<<6000, 4000>>}

WideRemainingAccountsChoices == {Keys}

WideWinnerLists ==
    {<<>>, <<Individual(1)>>, <<Individual(1), Individual(2)>>,
     <<Individual(1), Individual(1)>>, <<Group(<<1, 2>>, 1)>>,
     <<Group(<<1, 2>>, 2)>>, <<Group(<<1, 2, 3>>, 3)>>,
     <<Individual(3), Group(<<1, 2>>, 1)>>, <<Group(<<>>, 1)>>}

WideSumAmounts(transfers) ==
    WideSum([i \in 1 .. Len(transfers) |-> transfers[i].amount])

\* The effect of an instruction on byte amounts; the ledger `paid` is not
\* kept for these tournaments.
WideCommit(op, authority, key, r) ==
    /\ last' = [op |-> op, authority |-> authority, key |-> key,
                err |-> r.err, transfers |-> r.transfers,
                position_counter |-> r.position_counter,
                total_distributed |-> r.total_distributed]
    /\ tournament_state' = r.state
    /\ escrow_lamports' =
           WideSub(WideAdd(escrow_lamports, r.deposit),
                   WideSumAmounts(Settled(r)))
    /\ UNCHANGED paid

\* Somebody sends one lamport to the escrow address; the system program
\* refuses a credit that takes the balance past u64::MAX.
WideOutsideCredit == <<1>>

WideCreditEscrow ==
    /\ paid.outside = 0
    /\ ~WideExceedsU64(WideAdd(escrow_lamports, WideOutsideCredit))
    /\ escrow_lamports' = WideAdd(escrow_lamports, WideOutsideCredit)
    /\ paid' = [paid EXCEPT !.outside = 1]
    /\ last' = [op |-> "credit_escrow", authority |-> DefaultKey, key |-> 0,
                err |-> "Ok", transfers |-> <<>>, position_counter |-> 0,
                total_distributed |-> <<>>]
    /\ UNCHANGED <<initialized, tournament_state>>

WideInit ==
    /\ initialized = FALSE
    /\ tournament_state = [EmptyState EXCEPT !.buy_in_amount = <<>>]
    /\ escrow_lamports = <<>>
    /\ paid = NoPayments
    /\ last = [op |-> "none", authority |-> DefaultKey, key |-> 0,
               err |-> "Ok", transfers |-> <<>>, position_counter |-> 0,
               total_distributed |-> <<>>]

WideInitializeTournament ==
    /\ ~initialized
    /\ \E payer \in Callers, buy_in_amount \in WideFeeValues \cup {<<>>},
          max_players \in WideMaxPlayersValues,
          match_size \in WideMatchSizeValues,
          tournament_prize_percentage \in WideTournamentPrizeValues,
          match_prize_percentage \in WideMatchPrizeValues,
          operator_fee_percentage \in WideOperatorFeeValues,
          overflow_checks \in BOOLEAN :
        LET r == wide_initialize_tournament(tournament_state, payer,
                     buy_in_amount, max_players, match_size,
                     tournament_prize_percentage, match_prize_percentage,
                     operator_fee_percentage, overflow_checks)
        IN  /\ WideCommit("initialize_tournament", payer, 0, r)
            /\ initialized' = TransactionCommitted(r)

WideBuyIn ==
    /\ initialized
    /\ \E authority \in Callers :
        LET reads == /\ AuthorityConstraint(tournament_state, authority)
                     /\ tournament_state.phase = "Registration"
        IN  \E player \in InputsRead(Signers, reads),
               funded \in InputsRead(BOOLEAN, reads) :
            WideCommit("buy_in", authority, player,
                       wide_buy_in(tournament_state, player, authority,
                                   funded, escrow_lamports))
    /\ UNCHANGED initialized

WideStartTournament ==
    /\ initialized
    /\ \E authority \in Callers :
        LET reads == /\ AuthorityConstraint(tournament_state, authority)
                     /\ tournament_state.phase = "Registration"
        IN  \E payout_percentages \in
                   InputsRead(WideTournamentPayoutChoices, reads),
               match_payout_percentages \in
                   InputsRead(WideMatchPayoutChoices, reads) :
            WideCommit("start_tournament", authority, 0,
                       wide_start_tournament(tournament_state, authority,
                           payout_percentages, match_payout_percentages))
    /\ UNCHANGED initialized

WideFinalizeTournament ==
    /\ initialized
    /\ \E authority \in Callers :
        LET reads == /\ AuthorityConstraint(tournament_state, authority)
                     /\ tournament_state.phase = "Playing"
        IN  \E winners \in InputsRead(WideWinnerLists, reads),
               remaining_accounts \in
                   InputsRead(WideRemainingAccountsChoices, reads) :
            WideCommit("finalize_tournament", authority, 0,
                       wide_finalize_tournament(tournament_state, authority,
                           winners, remaining_accounts, escrow_lamports))
    /\ UNCHANGED initialized

WideDistributeMatchRewards ==
    /\ initialized
    /\ \E authority \in Callers, match_id_hash \in MatchIds :
        LET reads == /\ AuthorityConstraint(tournament_state, authority)
                     /\ tournament_state.phase = "Finalized"
                     /\ ~match_already_paid(tournament_state, match_id_hash)
        IN  \E winners \in WinnersRead(WideWinnerLists, reads),
               remaining_accounts \in
                   InputsRead(WideRemainingAccountsChoices, reads) :
            WideCommit("distribute_match_rewards", authority, match_id_hash,
                       wide_distribute_match_rewards(tournament_state,
                           authority, match_id_hash, winners,
                           remaining_accounts, escrow_lamports))
    /\ UNCHANGED initialized

WideWithdrawOperatorFee ==
    /\ initialized
    /\ \E authority \in Callers, fee_recipient \in Signers :
        WideCommit("withdraw_operator_fee", authority, fee_recipient,
                   wide_withdraw_operator_fee(tournament_state, authority,
                                              fee_recipient, escrow_lamports))
    /\ UNCHANGED initialized

WideCancelTournament ==
    /\ initialized
    /\ \E authority \in Callers :
        WideCommit("cancel_tournament", authority, 0,
                   wide_cancel_tournament(tournament_state, authority))
    /\ UNCHANGED initialized

WideRefundParticipant ==
    /\ initialized
    /\ \E authority \in Callers, participant \in Keys :
        WideCommit("refund_participant", authority, participant,
                   wide_refund_participant(tournament_state, authority,
                                           participant, escrow_lamports))
    /\ UNCHANGED initialized

WideNext ==
    \/ WideInitializeTournament
    \/ WideBuyIn
    \/ WideStartTournament
    \/ WideFinalizeTournament
    \/ WideDistributeMatchRewards
    \/ WideWithdrawOperatorFee
    \/ WideCancelTournament
    \/ WideRefundParticipant
    \/ WideCreditEscrow

WideSpec == WideInit /\ [][WideNext]_vars

\* C31: every amount handed to the escrow transfer is the amount computed in
\* the 128-bit arithmetic: narrowing it to the 64-bit transfer amount never
\* truncates.  The buy-ins were all received by the vault, whose balance is
\* a 64-bit word, so fee x current_players fits 64 bits, and so does every
\* prize, group share and operator fee computed from it: the transfers of a
\* payout call (narrowed) add up to the total_distributed it accumulated
\* (not narrowed), whether the call succeeded or failed later, and the
\* operator's transfer is floor(fee x current_players x operator bps /
\* 10000).
C31_NarrowingExact ==
    /\ initialized =>
          ~WideExceedsU64(WideMul(tournament_state.buy_in_amount,
                                  tournament_state.current_players))
    /\ last.op \in {"finalize_tournament", "distribute_match_rewards"} =>
          WideSumAmounts(last.transfers) = last.total_distributed
    /\ (last.op = "withdraw_operator_fee" /\ last.err = "Ok") =>
          last.transfers =
              <<[to |-> last.key,
                 amount |->
                     WideDiv(WideMul(WideMul(tournament_state.buy_in_amount,
                                     tournament_state.current_players),
                                 tournament_state.operator_fee_percentage),
                             BasisPoints)]>>

\* C31 witness: a finalize_tournament paid one winner an amount of more than
\* half of the u64 range (eight bytes, the top one at least 128), and that
\* is what it added to total_distributed.
C31_Witness ==
    /\ last.op = "finalize_tournament"
    /\ last.err = "Ok"
    /\ Len(last.transfers) = 1
    /\ Len(last.transfers[1].amount) = U64Bytes
    /\ last.transfers[1].amount[U64Bytes] >= 128
    /\ last.total_distributed = last.transfers[1].amount

====
